---- MODULE Spec2Model ----
(***************************************************************************)
(* Risch differential equation solver of sympy/integrals/rde.py.           *)
(*                                                                         *)
(* Polynomials are dense coefficient sequences over the rationals, lowest  *)
(* power first, without trailing zeros (the zero polynomial is << >>).     *)
(* Rationals are pairs <<numerator, denominator>> in lowest terms with a   *)
(* positive denominator.  The tower is a list of generators T with the     *)
(* list D of their derivations; the inputs of the model are polynomials in *)
(* the top generator whose coefficients are rational constants.            *)
(***************************************************************************)
EXTENDS Integers, Sequences, FiniteSets, TLC

(***************************************************************************)
(* Bounds of the model.                                                    *)
(***************************************************************************)
MaxCoef == 1
MaxDeg == 1
MaxRecursion == 4

(***************************************************************************)
(* Integer helpers.                                                        *)
(***************************************************************************)
Abs(n) == IF n < 0 THEN -n ELSE n

Min2(a, b) == IF a <= b THEN a ELSE b

Max2(a, b) == IF a >= b THEN a ELSE b

RECURSIVE IGcd(_, _)
IGcd(a, b) == IF b = 0 THEN Abs(a) ELSE IGcd(Abs(b), Abs(a) % Abs(b))

ILcm(a, b) == IF a = 0 \/ b = 0 THEN 0 ELSE (Abs(a) \div IGcd(a, b)) * Abs(b)

(***************************************************************************)
(* Rational numbers: the coefficient domain QQ.                            *)
(***************************************************************************)
QNorm(n, d) ==
    LET g == IGcd(n, d)
        s == IF d < 0 THEN -1 ELSE 1
    IN  <<(s * n) \div g, (s * d) \div g>>

QInt(n) == <<n, 1>>

QZero == <<0, 1>>

QOne == <<1, 1>>

QIsZero(a) == a[1] = 0

QAdd(a, b) ==
    IF a[2] = b[2] THEN QNorm(a[1] + b[1], a[2])
    ELSE LET l == ILcm(a[2], b[2])
         IN  QNorm(a[1] * (l \div a[2]) + b[1] * (l \div b[2]), l)

QNeg(a) == <<-a[1], a[2]>>

QSub(a, b) == QAdd(a, QNeg(b))

QMul(a, b) ==
    IF a[1] = 0 \/ b[1] = 0 THEN <<0, 1>>
    ELSE LET g1 == IGcd(a[1], b[2])
             g2 == IGcd(b[1], a[2])
         IN  <<(a[1] \div g1) * (b[1] \div g2), (a[2] \div g2) * (b[2] \div g1)>>

QDiv(a, b) ==
    IF b[1] < 0 THEN QMul(a, <<-b[2], -b[1]>>) ELSE QMul(a, <<b[2], b[1]>>)

QIsInteger(a) == a[2] = 1

QLess(a, b) == a[1] * b[2] < b[1] * a[2]

(***************************************************************************)
(* Dense univariate polynomials over QQ.                                   *)
(***************************************************************************)
RECURSIVE PTrim(_)
PTrim(s) ==
    IF s = << >> THEN << >>
    ELSE IF QIsZero(s[Len(s)]) THEN PTrim(SubSeq(s, 1, Len(s) - 1))
    ELSE s

\* the explicit tuple of a sequence given as a function on 1..n
Tuple(s) == SubSeq(s, 1, Len(s))

PZero == << >>

POne == <<QOne>>

PConst(c) == IF QIsZero(c) THEN << >> ELSE <<c>>

PInt(n) == PConst(QInt(n))

PGen == <<QZero, QOne>>

PIsZero(f) == f = << >>

PIsOne(f) == f = POne

PCoef(f, i) == IF i + 1 <= Len(f) /\ i >= 0 THEN f[i + 1] ELSE QZero

PDegree(f) == Len(f) - 1

PLC(f) == IF f = << >> THEN QZero ELSE f[Len(f)]

PAdd(f, g) ==
    PTrim(Tuple([i \in 1..Max2(Len(f), Len(g)) |->
                    QAdd(PCoef(f, i - 1), PCoef(g, i - 1))]))

PNeg(f) == Tuple([i \in 1..Len(f) |-> QNeg(f[i])])

PSub(f, g) ==
    PTrim(Tuple([i \in 1..Max2(Len(f), Len(g)) |->
                    QSub(PCoef(f, i - 1), PCoef(g, i - 1))]))

PScale(c, f) ==
    IF QIsZero(c) THEN << >> ELSE Tuple([i \in 1..Len(f) |-> QMul(c, f[i])])

PShift(f, m) ==
    IF f = << >> THEN << >>
    ELSE Tuple([i \in 1..(Len(f) + m) |-> IF i <= m THEN QZero ELSE f[i - m]])

PMonomial(c, m) == PShift(PConst(c), m)

RECURSIVE PMulAcc(_, _, _, _)
PMulAcc(f, g, i, acc) ==
    IF i > Len(f) THEN acc
    ELSE PMulAcc(f, g, i + 1, PAdd(acc, PShift(PScale(f[i], g), i - 1)))

PMul(f, g) == IF f = << >> \/ g = << >> THEN << >> ELSE PMulAcc(f, g, 1, << >>)

RECURSIVE PPow(_, _)
PPow(f, n) == IF n <= 0 THEN POne ELSE PMul(f, PPow(f, n - 1))

\* Division with remainder over the field QQ: f == q*g + r, deg(r) < deg(g).
RECURSIVE PDivAcc(_, _, _)
PDivAcc(r, g, q) ==
    IF Len(r) < Len(g) THEN <<q, r>>
    ELSE LET m == Len(r) - Len(g)
             c == QDiv(PLC(r), PLC(g))
             p == PMonomial(c, m)
         IN  PDivAcc(PSub(r, PMul(p, g)), g, PAdd(q, p))

\* (no caller divides by the zero polynomial; the guard keeps PDiv total)
PDiv(f, g) == IF g = << >> THEN <<PZero, f>> ELSE PDivAcc(f, g, << >>)

PRem(f, g) == PDiv(f, g)[2]

PQuo(f, g) == PDiv(f, g)[1]

PMonic(f) == IF f = << >> THEN << >> ELSE PScale(QDiv(QOne, PLC(f)), f)

\* clear_denoms: <<c, c*f>> with c the least common denominator of f.
RECURSIVE DenomLcm(_, _)
DenomLcm(f, i) == IF i = 0 THEN 1 ELSE ILcm(f[i][2], DenomLcm(f, i - 1))

clear_denoms(f) ==
    LET c == DenomLcm(f, Len(f)) IN <<c, PScale(QInt(c), f)>>

\* content of a polynomial with integer coefficients
RECURSIVE Content(_, _)
Content(f, i) == IF i = 0 THEN 0 ELSE IGcd(f[i][1], Content(f, i - 1))

PositiveLC(f) == IF PLC(f)[1] < 0 THEN PNeg(f) ELSE f

\* the associate of f with coprime integer coefficients and positive
\* leading coefficient
Primitive(f) ==
    LET F == clear_denoms(f)[2]
    IN  IF f = << >> THEN f
        ELSE PositiveLC(PScale(QDiv(QOne, QInt(Content(F, Len(F)))), F))

\* gcd over the field QQ (monic), by the primitive Euclidean remainder
\* sequence; gcd(0, 0) == 0.
RECURSIVE PGcdEuclid(_, _)
PGcdEuclid(f, g) ==
    IF g = << >> THEN f ELSE PGcdEuclid(g, Primitive(PRem(f, g)))

PGcd(f, g) == PMonic(PGcdEuclid(f, g))

PDiff(f) ==
    IF Len(f) <= 1 THEN << >>
    ELSE PTrim(Tuple([i \in 1..(Len(f) - 1) |-> QMul(QInt(i), f[i + 1])]))

(***************************************************************************)
(* Collaborators of rde.py that live in sympy/integrals/risch.py and in    *)
(* the dense polynomial engine: derivation, splitfactor, gcdex_diophantine,*)
(* get_case, resultant, real_roots, cofactors.                             *)
(***************************************************************************)

\* The tower: T lists the generators, D their derivations (each a
\* polynomial in its own generator).  The model's polynomials have
\* constant coefficients, so D acts as (dp/dt) * D[-1].
Last(s) == s[Len(s)]

Front(s) == SubSeq(s, 1, Len(s) - 1)

derivation(p, D, T) == PMul(PDiff(p), Last(D))

\* classifyExtension of the data model: base field, primitive,
\* exponential, hypertangent; 'other_*' for everything else.
get_case(d, t) ==
    IF PDegree(d) <= 0
    THEN (IF PIsOne(d) THEN "base" ELSE "primitive")
    ELSE IF PDegree(d) = 1 /\ QIsZero(PCoef(d, 0)) THEN "exp"
    ELSE IF PDegree(d) = 2 /\ QIsZero(PCoef(d, 1)) /\ PCoef(d, 0) = PCoef(d, 2)
    THEN "tan"
    ELSE IF PDegree(d) > 1 THEN "other_nonlinear"
    ELSE "other_linear"

\* splitfactor(p, D, T) == <<normal part, special part>> of p with
\* respect to the derivation: S = gcd(p, Dp)/gcd(p, dp/dt) is the special
\* part of the squarefree part, split off until nothing special is left.
RECURSIVE splitfactor(_, _, _)
splitfactor(p, D, T) ==
    LET Dp == derivation(p, D, T)
        S  == PQuo(PGcd(p, Dp), PGcd(p, PDiff(p)))
    IN  IF PIsZero(p) THEN <<p, POne>>
        ELSE IF PIsZero(Dp) THEN <<p, POne>>
        ELSE IF PDegree(S) = 0 THEN <<p, POne>>
        ELSE LET rest == splitfactor(PQuo(p, S), D, T)
             IN  <<rest[1], PMul(S, rest[2])>>

\* Extended Euclidean algorithm: <<s, t, g>> with s*a + t*b == g, g monic.
RECURSIVE gcdexAcc(_, _, _, _, _, _)
gcdexAcc(r0, s0, t0, r1, s1, t1) ==
    IF PIsZero(r1)
    THEN (IF PIsZero(r0) THEN <<s0, t0, r0>>
          ELSE LET c == QDiv(QOne, PLC(r0))
               IN  <<PScale(c, s0), PScale(c, t0), PScale(c, r0)>>)
    ELSE LET qr == PDiv(r0, r1)
         IN  gcdexAcc(r1, s1, t1, qr[2],
                      PSub(s0, PMul(qr[1], s1)), PSub(t0, PMul(qr[1], t1)))

gcdex(a, b) == gcdexAcc(a, POne, PZero, b, PZero, POne)

\* \* the reduction of a solution <<s0, t0>> to deg(s) < deg(b)
gcdex_reduce(a, b, s0, t0) ==
    IF ~PIsZero(s0) /\ PDegree(s0) >= PDegree(b)
    THEN [tag |-> "ok",
          val |-> <<PDiv(s0, b)[2], PAdd(t0, PMul(PDiv(s0, b)[1], a))>>]
    ELSE [tag |-> "ok", val |-> <<s0, t0>>]

gcdex_scale(a, b, c, e) ==
    IF PIsZero(e[3]) \/ ~PIsZero(PRem(c, e[3]))
    THEN [tag |-> "ValueError", val |-> << >>]
    ELSE gcdex_reduce(a, b, PMul(PQuo(c, e[3]), e[1]), PMul(PQuo(c, e[3]), e[2]))

gcdex_diophantine(a, b, c) == gcdex_scale(a, b, c, gcdex(a, b))

\* Evaluation of f at the rational point c (Horner).
RECURSIVE PEvalAcc(_, _, _, _)
PEvalAcc(f, c, i, acc) ==
    IF i = 0 THEN acc ELSE PEvalAcc(f, c, i - 1, QAdd(QMul(acc, c), f[i]))

PEval(f, c) == PEvalAcc(f, c, Len(f), QZero)

RECURSIVE QPow(_, _)
QPow(c, n) == IF n <= 0 THEN QOne ELSE QMul(c, QPow(c, n - 1))

\* Resultant of f and g with respect to the generator, f taken with the
\* formal degree n >= deg(f), g nonzero of degree m:
\* (-1)^(n*m) * lc(g)^n * prod of f over the roots of g.
RECURSIVE PResultant(_, _, _)
PResultant(f, n, g) ==
    LET m == PDegree(g)
        R == PRem(f, g)
        sign == IF (n * m) % 2 = 0 THEN QOne ELSE QInt(-1)
    IN  IF m = 0 THEN QPow(PLC(g), n)
        ELSE IF PIsZero(R) THEN QZero
        ELSE QMul(QMul(sign, QPow(PLC(g), n - PDegree(R))),
                  PResultant(g, m, R))

\* Lagrange interpolation through the points (k, v[k + 1]), k = 0..Len(v)-1.
RECURSIVE LagrangeBasis(_, _, _)
LagrangeBasis(k, j, top) ==
    IF j > top THEN POne
    ELSE IF j = k THEN LagrangeBasis(k, j + 1, top)
    ELSE PMul(PScale(QDiv(QOne, QInt(k - j)), <<QInt(-j), QOne>>),
              LagrangeBasis(k, j + 1, top))

RECURSIVE InterpolateAcc(_, _, _)
InterpolateAcc(v, k, acc) ==
    IF k > Len(v) - 1 THEN acc
    ELSE InterpolateAcc(v, k + 1,
             PAdd(acc, PScale(v[k + 1], LagrangeBasis(k, 0, Len(v) - 1))))

Interpolate(v) == InterpolateAcc(v, 0, PZero)

\* resultant with respect to t of (a - z*e) and g, as a polynomial in the
\* placeholder z: its degree in z is at most deg(g), so it is determined
\* by its values at z = 0..deg(g).
resultant(a, e, g) ==
    LET n == Max2(PDegree(a), PDegree(e))
        m == PDegree(g)
    IN  IF PIsZero(a) /\ PIsZero(e) THEN PZero
        ELSE IF PIsZero(g) THEN PZero
        ELSE Interpolate(Tuple([k \in 1..(m + 1) |->
                 PResultant(PSub(a, PScale(QInt(k - 1), e)), n, g)]))

MaxAbsCoef(f) ==
    IF f = << >> THEN 0
    ELSE CHOOSE b \in {Abs(f[i][1]) : i \in 1..Len(f)} :
             \A i \in 1..Len(f) : Abs(f[i][1]) <= b

\* real_roots restricted to the positive integers, with multiplicities,
\* in increasing order.  Every root z of r satisfies Cauchy's bound
\* |z| <= 1 + max|r_i| / |lc(r)|.
CauchyBound(r) ==
    LET R == clear_denoms(r)[2]
    IN  2 + (MaxAbsCoef(R) \div Abs(PLC(R)[1]))

RECURSIVE RootMult(_, _)
RootMult(r, k) ==
    IF PIsZero(r) \/ ~QIsZero(PEval(r, QInt(k))) THEN 0
    ELSE 1 + RootMult(PQuo(r, <<QInt(-k), QOne>>), k)

RECURSIVE Repeat(_, _)
Repeat(k, n) == IF n <= 0 THEN << >> ELSE <<k>> \o Repeat(k, n - 1)

RECURSIVE RootsFrom(_, _, _)
RootsFrom(r, k, top) ==
    IF k > top THEN << >>
    ELSE Repeat(k, RootMult(r, k)) \o RootsFrom(r, k + 1, top)

RECURSIVE DistinctRootsFrom(_, _, _)
DistinctRootsFrom(r, k, top) ==
    IF k > top THEN << >>
    ELSE (IF RootMult(r, k) > 0 THEN <<k>> ELSE << >>)
         \o DistinctRootsFrom(r, k + 1, top)

\* every root once, whatever its multiplicity
positive_integer_roots_distinct(r) ==
    IF PDegree(r) < 1 THEN << >>
    ELSE DistinctRootsFrom(r, 1, CauchyBound(r))

positive_integer_roots(r) ==
    IF PDegree(r) < 1 THEN << >>
    ELSE RootsFrom(r, 1, CauchyBound(r))

\* cofactors over the ring ZZ: <<h, cff, cfg>> with h = gcd(f, g) of
\* positive leading coefficient, cff = quo(f, h), cfg = quo(g, h).
cofactors(f, g) ==
    IF PIsZero(f) /\ PIsZero(g) THEN <<PZero, PZero, PZero>>
    ELSE IF PIsZero(f) THEN <<PositiveLC(g), PZero, PQuo(g, PositiveLC(g))>>
    ELSE IF PIsZero(g) THEN <<PositiveLC(f), PQuo(f, PositiveLC(f)), PZero>>
    ELSE LET c == IGcd(Content(f, Len(f)), Content(g, Len(g)))
             h == PScale(QInt(c), Primitive(PGcd(f, g)))
         IN  <<h, PQuo(f, h), PQuo(g, h)>>

\* Poly.cancel(f, g, include=True) over the domain QQ
cancel(f, g) ==
    LET cF == clear_denoms(f)
        cG == clear_denoms(g)
        co == cofactors(cF[2], cG[2])
    IN  <<PScale(QInt(cG[1]), co[2]), PScale(QInt(cF[1]), co[3])>>

(***************************************************************************)
(* rde.py                                                                  *)
(***************************************************************************)

\* order_at(a, p, t): the general path, n counts the powers of p that
\* divide a (the loop of lines 52-60 with p1 = p^(n+1)).
RECURSIVE order_at_loop(_, _, _, _)
order_at_loop(a, p, n, p1) ==
    LET n1 == n + 1
        p2 == PMul(p1, p)
        r  == PRem(a, p2)
    IN  IF PIsZero(r) THEN order_at_loop(a, p, n1, p2) ELSE n1

\* the exponent of the last (lowest) term of a: a.as_poly(t).ET()[0][0];
\* the zero polynomial has the one term 0*t^0
RECURSIVE LowestExponent(_, _)
LowestExponent(a, i) ==
    IF i >= Len(a) THEN 0
    ELSE IF ~QIsZero(PCoef(a, i)) THEN i ELSE LowestExponent(a, i + 1)

\* the exponent of the leading term in place of the last one
order_at_fast_LT(a) == PDegree(a)

\* lines 48-49: the exponent of the last term when p is the generator
order_at_fast(a) == LowestExponent(a, 0)

order_at(a, p, t) ==
    IF PIsZero(a) THEN [tag |-> "ValueError", val |-> 0]
    ELSE IF p = PGen THEN [tag |-> "ok", val |-> order_at_fast(a)]
    ELSE [tag |-> "ok", val |-> order_at_loop(a, p, -1, POne)]

\* reduce(mul, [gcd(a - n*D(d1), d1) for n in N], 1)
RECURSIVE ProductOfGcds(_, _, _, _)
ProductOfGcds(a, Dd1, d1, N) ==
    IF N = << >> THEN POne
    ELSE PMul(ProductOfGcds(a, Dd1, d1, Front(N)),
              PGcd(PSub(a, PScale(QInt(Last(N)), Dd1)), d1))

\* lines 83-87: d1 of the square-free factorization dn == d1*d2**2*...
SquareFreeCore(dn) ==
    LET g == PGcd(dn, PDiff(dn))
        d_sqf_part == PQuo(dn, g)
    IN  PQuo(d_sqf_part, PGcd(d_sqf_part, g))

\* lines 101-106
weak_normalizer_cancel(q, sn, sd) ==
    [tag |-> "ok", q |-> q, a |-> cancel(sn, sd)[1], d |-> cancel(sn, sd)[2]]

\* sn = q*a + d*dq in place of q*a - d*dq
weak_normalizer_q_plus(a, d, D, T, q) ==
    weak_normalizer_cancel(q, PAdd(PMul(q, a), PMul(d, derivation(q, D, T))),
                           PMul(q, d))

weak_normalizer_q(a, d, D, T, q) ==
    weak_normalizer_cancel(q, PSub(PMul(q, a), PMul(d, derivation(q, D, T))),
                           PMul(q, d))

\* lines 93-99
weak_normalizer_r(a, d, D, T, d1, Dd1, r) ==
    IF PDegree(r) < 1
    THEN [tag |-> "ok", q |-> POne, a |-> a, d |-> d]
    ELSE weak_normalizer_q(a, d, D, T,
             ProductOfGcds(a, Dd1, d1, positive_integer_roots(r)))

\* lines 89-91
weak_normalizer_d1(a, d, D, T, d1, Dd1, a1b) ==
    IF a1b.tag # "ok"
    THEN [tag |-> a1b.tag, q |-> PZero, a |-> PZero, d |-> PZero]
    ELSE weak_normalizer_r(a, d, D, T, d1, Dd1, resultant(a, Dd1, d1))

weak_normalizer_dn(a, d, D, T, d1) ==
    weak_normalizer_d1(a, d, D, T, d1, derivation(d1, D, T),
                       gcdex_diophantine(PQuo(d, d1), d1, a))

weak_normalizer(a, d, D, T) ==
    weak_normalizer_dn(a, d, D, T, SquareFreeCore(splitfactor(d, D, T)[1]))

\* Results of the functions are records: tag is "ok" or the name of the
\* exception raised.
Raise(e) == [tag |-> e]

\* lines 133-140
normal_denom_return(a, h, cacd, babd) ==
    [tag |-> "ok", a |-> a, ba |-> babd[1], bd |-> babd[2],
     ca |-> cacd[1], cd |-> cacd[2], h |-> h]

\* en.div(c) in place of c.div(en)
normal_denom_a_swapped(fa, fd, ga, gd, D, T, dn, en, h, a, c) ==
    IF ~PIsZero(PDiv(en, c)[2])
    THEN Raise("NonElementaryIntegral")
    ELSE normal_denom_return(a, h, cancel(PMul(c, ga), gd),
             cancel(PSub(PMul(a, fa), PMul(PMul(dn, derivation(h, D, T)), fd)),
                    fd))

\* lines 128-137
normal_denom_a(fa, fd, ga, gd, D, T, dn, en, h, a, c) ==
    IF ~PIsZero(PDiv(c, en)[2])
    THEN Raise("NonElementaryIntegral")
    ELSE normal_denom_return(a, h, cancel(PMul(c, ga), gd),
             cancel(PSub(PMul(a, fa), PMul(PMul(dn, derivation(h, D, T)), fd)),
                    fd))

normal_denom_h(fa, fd, ga, gd, D, T, dn, en, h) ==
    normal_denom_a(fa, fd, ga, gd, D, T, dn, en, h, PMul(dn, h),
                   PMul(PMul(dn, h), h))

\* h = gcd(en, en'), the division by gcd(p, p') left out
normal_denom_p_no_quo(fa, fd, ga, gd, D, T, dn, en, p) ==
    normal_denom_h(fa, fd, ga, gd, D, T, dn, en, PGcd(en, PDiff(en)))

\* lines 125-126
normal_denom_p(fa, fd, ga, gd, D, T, dn, en, p) ==
    normal_denom_h(fa, fd, ga, gd, D, T, dn, en,
                   PQuo(PGcd(en, PDiff(en)), PGcd(p, PDiff(p))))

\* line 125
normal_denom_split(fa, fd, ga, gd, D, T, dn, en) ==
    normal_denom_p(fa, fd, ga, gd, D, T, dn, en, PGcd(dn, en))

\* lines 122-123
SplitNormal(d, D, T) == splitfactor(d, D, T)[1]

normal_denom(fa, fd, ga, gd, D, T) ==
    normal_denom_split(fa, fd, ga, gd, D, T, SplitNormal(fd, D, T),
                       SplitNormal(gd, D, T))

\* C = (ca*pN).quo(cd), the factor pn left out
special_denom_N_no_pn(a, ba, bd, ca, cd, D, T, p, n, pN, pn) ==
    [tag |-> "ok",
     A |-> PMul(a, pN),
     B |-> PAdd(PMul(ba, PQuo(pN, bd)),
                PMul(PMul(PMul(PInt(n), a), PQuo(derivation(p, D, T), p)), pN)),
     C |-> PQuo(PMul(ca, pN), cd),
     h |-> pn]

\* lines 201-211
special_denom_N(a, ba, bd, ca, cd, D, T, p, n, pN, pn) ==
    [tag |-> "ok",
     A |-> PMul(a, pN),
     B |-> PAdd(PMul(ba, PQuo(pN, bd)),
                PMul(PMul(PMul(PInt(n), a), PQuo(derivation(p, D, T), p)), pN)),
     C |-> PQuo(PMul(PMul(ca, pN), pn), cd),
     h |-> pn]

\* lines 183-203
special_denom_n(a, ba, bd, ca, cd, D, T, p, nb, nc, n) ==
    IF nb = 0 THEN Raise("NotImplementedError")
    ELSE special_denom_N(a, ba, bd, ca, cd, D, T, p, n,
                         PPow(p, Max2(Max2(0, -nb), n - nc)), PPow(p, -n))

\* n = min(0, nc), min(0, nb) left out
special_denom_orders_n_from_nc(a, ba, bd, ca, cd, D, T, p, oba, obd, oca, ocd) ==
    IF oba.tag # "ok" THEN Raise(oba.tag)
    ELSE IF obd.tag # "ok" THEN Raise(obd.tag)
    ELSE IF oca.tag # "ok" THEN Raise(oca.tag)
    ELSE IF ocd.tag # "ok" THEN Raise(ocd.tag)
    ELSE special_denom_n(a, ba, bd, ca, cd, D, T, p,
             oba.val - obd.val, oca.val - ocd.val,
             Min2(0, oca.val - ocd.val))

\* lines 180-183
special_denom_orders(a, ba, bd, ca, cd, D, T, p, oba, obd, oca, ocd) ==
    IF oba.tag # "ok" THEN Raise(oba.tag)
    ELSE IF obd.tag # "ok" THEN Raise(obd.tag)
    ELSE IF oca.tag # "ok" THEN Raise(oca.tag)
    ELSE IF ocd.tag # "ok" THEN Raise(ocd.tag)
    ELSE special_denom_n(a, ba, bd, ca, cd, D, T, p,
             oba.val - obd.val, oca.val - ocd.val,
             Min2(0, (oca.val - ocd.val) - Min2(0, oba.val - obd.val)))

\* C = cd.quo(cd) in the primitive and base cases
special_denom_case_cd_by_cd(a, ba, bd, ca, cd, D, T, case, p) ==
    IF case \in {"primitive", "base"}
    THEN [tag |-> "ok", A |-> a, B |-> PQuo(ba, bd), C |-> PQuo(cd, cd),
          h |-> POne]
    ELSE IF case \notin {"exp", "tan"} THEN Raise("ValueError")
    ELSE special_denom_orders(a, ba, bd, ca, cd, D, T, p,
             order_at(ba, p, Last(T)), order_at(bd, p, Last(T)),
             order_at(ca, p, Last(T)), order_at(cd, p, Last(T)))

\* lines 167-181
special_denom_case(a, ba, bd, ca, cd, D, T, case, p) ==
    IF case \in {"primitive", "base"}
    THEN [tag |-> "ok", A |-> a, B |-> PQuo(ba, bd), C |-> PQuo(ca, cd),
          h |-> POne]
    ELSE IF case \notin {"exp", "tan"} THEN Raise("ValueError")
    ELSE special_denom_orders(a, ba, bd, ca, cd, D, T, p,
             order_at(ba, p, Last(T)), order_at(bd, p, Last(T)),
             order_at(ca, p, Last(T)), order_at(cd, p, Last(T)))

special_denom(a, ba, bd, ca, cd, D, T) ==
    special_denom_case(a, ba, bd, ca, cd, D, T, get_case(Last(D), Last(T)),
        IF get_case(Last(D), Last(T)) = "exp" THEN PGen
        ELSE <<QOne, QZero, QOne>>)

\* max(0, alpha, dc - db) for an integer alpha
Max3(a, b, c) == Max2(Max2(a, b), c)

\* lines 237-240
bound_degree_base(da, db, dc, alpha, alphaInt) ==
    IF db = da - 1 /\ alphaInt
    THEN [tag |-> "ok", val |-> Max3(0, alpha[1], dc - db)]
    ELSE [tag |-> "ok", val |-> Max2(0, dc - Max2(db, da - 1))]

\* the test db == da - 1 of lines 248-250 left out
bound_degree_primitive_no_first_test(da, db, dc) ==
    IF db = da THEN Raise("NotImplementedError")
    ELSE IF db > da THEN [tag |-> "ok", val |-> Max2(0, dc - db)]
    ELSE Raise("UnboundLocalError")

\* lines 242-261: n stays unassigned unless db > da
bound_degree_primitive(da, db, dc) ==
    IF db = da - 1 THEN Raise("NotImplementedError")
    ELSE IF db = da THEN Raise("NotImplementedError")
    ELSE IF db > da THEN [tag |-> "ok", val |-> Max2(0, dc - db)]
    ELSE Raise("UnboundLocalError")

\* lines 263-269
bound_degree_exp(da, db, dc) ==
    IF da = db THEN Raise("NotImplementedError")
    ELSE [tag |-> "ok", val |-> Max2(0, dc - Max2(db, da))]

\* lines 271-276
bound_degree_tan(da, db, dc, alpha, alphaInt, delta) ==
    IF db = da + delta - 1 /\ alphaInt
    THEN [tag |-> "ok", val |-> Max3(0, alpha[1], dc - db)]
    ELSE [tag |-> "ok", val |-> Max2(0, dc - Max2(da + delta - 1, db))]

\* lines 226-281; alpha = cancel(-lc(b)/lc(c)), a quotient by zero is no
\* Integer
bound_degree_case(case, da, db, dc, alpha, alphaInt, delta) ==
    IF case = "base" THEN bound_degree_base(da, db, dc, alpha, alphaInt)
    ELSE IF case = "primitive" THEN bound_degree_primitive(da, db, dc)
    ELSE IF case = "exp" THEN bound_degree_exp(da, db, dc)
    ELSE IF case \in {"tan", "other_nonlinear"}
    THEN bound_degree_tan(da, db, dc, alpha, alphaInt, delta)
    ELSE Raise("ValueError")

bound_degree(a, b, c, D, T) ==
    bound_degree_case(get_case(Last(D), Last(T)), PDegree(a), PDegree(b),
                      PDegree(c), QDiv(QNeg(PLC(b)), PLC(c)),
                      ~QIsZero(PLC(c)) /\ QIsInteger(QDiv(QNeg(PLC(b)), PLC(c))),
                      PDegree(Last(D)))

\* Degree bounds: an integer or the unbounded value oo.
NInt(k) == [inf |-> FALSE, v |-> k]

oo == [inf |-> TRUE, v |-> 0]

NSub(n, k) == IF n.inf THEN n ELSE NInt(n.v - k)

\* n <= 0 in place of n < 0
NNegOrZero(n) == ~n.inf /\ n.v <= 0

NNeg(n) == ~n.inf /\ n.v < 0

\* 0 <= m <= n
InRange(m, n) == 0 <= m /\ (n.inf \/ m <= n.v)

\* spde calls itself with the same a (divided by gcd(a, b)) and the bound
\* n - deg(a): with n = oo the bound never becomes negative.  The model
\* follows the recursion to the depth MaxRecursion and reports a deeper
\* one the way Python reports a recursion beyond its limit.
RECURSIVE spde_rec(_, _, _, _, _, _, _)

\* beta = a*beta, the particular solution r left out
spde_compose_no_r(a, r, u) ==
    IF u.tag # "ok" THEN u
    ELSE [tag |-> "ok", B |-> u.B, C |-> u.C, m |-> u.m,
          alpha |-> PMul(a, u.alpha), beta |-> PMul(a, u.beta)]

\* lines 317-319
spde_compose(a, r, u) ==
    IF u.tag # "ok" THEN u
    ELSE [tag |-> "ok", B |-> u.B, C |-> u.C, m |-> u.m,
          alpha |-> PMul(a, u.alpha), beta |-> PAdd(PMul(a, u.beta), r)]

\* lines 313-317
spde_recurse(a, b, c, D, n, T, depth, rz) ==
    IF rz.tag # "ok" THEN Raise(rz.tag)
    ELSE spde_compose(a, rz.val[1],
             spde_rec(a, PAdd(b, derivation(a, D, T)),
                      PSub(rz.val[2], derivation(rz.val[1], D, T)), D,
                      NSub(n, PDegree(a)), T, depth + 1))

\* lines 309-313, a, b, c already divided by g
spde_divided(a, b, c, D, n, T, depth) ==
    IF PDegree(a) = 0
    THEN [tag |-> "ok", B |-> PQuo(b, a), C |-> PQuo(c, a), m |-> n,
          alpha |-> POne, beta |-> PZero]
    ELSE spde_recurse(a, b, c, D, n, T, depth, gcdex_diophantine(b, a, c))

\* lines 305-309
spde_gcd(a, b, c, D, n, T, depth, g) ==
    IF ~PIsZero(PRem(c, g)) THEN Raise("NonElementaryIntegral")
    ELSE spde_divided(PQuo(a, g), PQuo(b, g), PQuo(c, g), D, n, T, depth)

spde_rec(a, b, c, D, n, T, depth) ==
    IF depth > MaxRecursion THEN Raise("RuntimeError")
    ELSE IF NNeg(n)
    THEN (IF PIsZero(c)
          THEN [tag |-> "ok", B |-> PZero, C |-> PZero, m |-> NInt(0),
                alpha |-> PZero, beta |-> PZero]
          ELSE Raise("NonElementaryIntegral"))
    ELSE spde_gcd(a, b, c, D, n, T, depth, PGcd(a, b))

spde(a, b, c, D, n, T) == spde_rec(a, b, c, D, n, T, 0)

\* The three peeling loops.  Each is the while loop of its function with
\* the loop variables (q, c, n) as parameters.
RECURSIVE no_cancel_b_large_loop(_, _, _, _, _, _)
no_cancel_b_large_loop(b, c, D, n, T, q) ==
    LET m == PDegree(c) - PDegree(b)
        p == PMonomial(QDiv(PLC(c), PLC(b)), m)
    IN  IF PIsZero(c) THEN [tag |-> "ok", kind |-> "poly", q |-> q]
        ELSE IF ~InRange(m, n) THEN Raise("NonElementaryIntegral")
        ELSE no_cancel_b_large_loop(b,
                 PSub(PSub(c, derivation(p, D, T)), PMul(b, p)),
                 D, NInt(m - 1), T, PAdd(q, p))

no_cancel_b_large(b, c, D, n, T) == no_cancel_b_large_loop(b, c, D, n, T, PZero)

\* m = c.degree(t) - d.degree(t), the + 1 left out
no_cancel_b_small_m_no_shift(c, d, n) ==
    IF ~n.inf /\ n.v = 0 THEN 0 ELSE PDegree(c) - PDegree(d)

\* lines 365-368
no_cancel_b_small_m(c, d, n) ==
    IF ~n.inf /\ n.v = 0 THEN 0 ELSE PDegree(c) - PDegree(d) + 1

RECURSIVE no_cancel_b_small_loop(_, _, _, _, _, _)
no_cancel_b_small_loop(b, c, D, n, T, q) ==
    LET d == Last(D)
        m == no_cancel_b_small_m(c, d, n)
        p == IF m > 0
             THEN PMonomial(QDiv(PLC(c), QMul(QInt(m), PLC(d))), m)
             ELSE PConst(QDiv(PLC(c), PLC(b)))
    IN  IF PIsZero(c) THEN [tag |-> "ok", kind |-> "poly", q |-> q]
        ELSE IF ~InRange(m, n) THEN Raise("NonElementaryIntegral")
        ELSE IF m = 0 /\ PDegree(b) # PDegree(c)
        THEN Raise("NonElementaryIntegral")
        ELSE IF m = 0 /\ PDegree(b) = 0
        THEN (IF Len(T) < 2 THEN Raise("IndexError")
              ELSE [tag |-> "ok", kind |-> "tuple", q |-> q, b0 |-> b, c0 |-> c])
        ELSE no_cancel_b_small_loop(b,
                 PSub(PSub(c, derivation(p, D, T)), PMul(b, p)),
                 D, NInt(m - 1), T, PAdd(q, p))

no_cancel_b_small(b, c, D, n, T) == no_cancel_b_small_loop(b, c, D, n, T, PZero)

RECURSIVE no_cancel_equal_loop(_, _, _, _, _, _, _)
no_cancel_equal_loop(b, c, D, n, T, q, M) ==
    LET d == Last(D)
        m == Max2(M, PDegree(c) - PDegree(d) + 1)
        u == QAdd(QMul(QInt(m), PLC(d)), PLC(b))
        p == IF m > 0 THEN PMonomial(QDiv(PLC(c), u), m)
             ELSE PConst(QDiv(PLC(c), PLC(b)))
    IN  IF PIsZero(c) THEN [tag |-> "ok", kind |-> "poly", q |-> q]
        ELSE IF ~InRange(m, n) THEN Raise("NonElementaryIntegral")
        ELSE IF QIsZero(u)
        THEN [tag |-> "ok", kind |-> "tuple", q |-> q, m |-> m, C |-> c]
        ELSE IF m <= 0 /\ PDegree(c) # PDegree(d) - 1
        THEN Raise("NonElementaryIntegral")
        ELSE no_cancel_equal_loop(b,
                 PSub(PSub(c, derivation(p, D, T)), PMul(b, p)),
                 D, NInt(m - 1), T, PAdd(q, p), M)

no_cancel_equal(b, c, D, n, T) ==
    LET lc == QDiv(QNeg(PLC(b)), PLC(Last(D)))
        M  == IF QIsInteger(lc) /\ lc[1] > 0 THEN lc[1] ELSE -1
    IN  no_cancel_equal_loop(b, c, D, n, T, PZero, M)

\* n > -lc(b)/lc(d)
ExceedsRatio(n, b, d) == n.inf \/ QLess(QDiv(QNeg(PLC(b)), PLC(d)), QInt(n.v))

RECURSIVE solve_poly_rde(_, _, _, _, _)
solve_poly_rde(b, c, D, n, T) ==
    LET d == Last(D)
    IN  IF ~PIsZero(b) /\ (PIsOne(d) \/ PDegree(b) > Max2(0, PDegree(d) - 1))
        THEN no_cancel_b_large(b, c, D, n, T)
        ELSE IF (PIsZero(b) \/ PDegree(b) < PDegree(d) - 1)
                /\ (PIsOne(d) \/ PDegree(d) >= 2)
        THEN LET R == no_cancel_b_small(b, c, D, n, T)
             IN  IF R.tag # "ok" \/ R.kind = "poly" THEN R
                 ELSE IF PIsZero(R.b0) \/ PIsZero(R.c0)
                 THEN Raise("AssertionError")
                 ELSE LET y == solve_poly_rde(R.b0, R.c0, Front(D), n, Front(T))
                      IN  IF y.tag # "ok" THEN y
                          ELSE [tag |-> "ok", kind |-> "poly",
                                q |-> PAdd(R.q, y.q)]
        ELSE IF PDegree(d) >= 2 /\ PDegree(b) = PDegree(d) - 1
                /\ ExceedsRatio(n, b, d)
        THEN LET R == no_cancel_equal(b, c, D, n, T)
             IN  IF R.tag # "ok" \/ R.kind = "poly" THEN R
                 ELSE LET y == solve_poly_rde(b, R.C, D, NInt(R.m), T)
                      IN  IF y.tag # "ok" THEN y
                          ELSE [tag |-> "ok", kind |-> "poly",
                                q |-> PAdd(R.q, y.q)]
        ELSE Raise("NotImplementedError")

(***************************************************************************)
(* Inputs of the model.                                                    *)
(***************************************************************************)
Coefs == (-MaxCoef)..MaxCoef

\* the polynomials of degree at most n with coefficients in Coefs
PolysUpTo(n) ==
    UNION {{Tuple([i \in 1..k |-> QInt(c[i])]) :
               c \in {c \in [1..k -> Coefs] : k = 0 \/ c[k] # 0}} : k \in 0..(n + 1)}

Polys == PolysUpTo(MaxDeg)

\* denominators: the monic polynomials among them
Denoms == {f \in Polys : f # << >> /\ PLC(f) = QOne}

\* the towers: base field Q(x); exponential, hypertangent and primitive
\* monomial t over it.
BaseTower == [T |-> <<"x">>, D |-> <<POne>>]

ExpTower == [T |-> <<"x", "t">>, D |-> <<POne, PGen>>]

TanTower == [T |-> <<"x", "t">>, D |-> <<POne, <<QOne, QZero, QOne>>>>]

PrimTower == [T |-> <<"x", "t">>, D |-> <<POne, <<QInt(2)>>>>]

Towers == {BaseTower, ExpTower, TanTower, PrimTower}

(***************************************************************************)
(* State.  pc is the position in the function under execution, inp its     *)
(* arguments, loc its local variables, out how it ended, warnings the      *)
(* number of warnings emitted.                                             *)
(***************************************************************************)
VARIABLES pc, inp, loc, out, warnings

vars == <<pc, inp, loc, out, warnings>>

NoOut == [kind |-> "none"]

Returned(v) == [kind |-> "return", val |-> v]

Raised(e) == [kind |-> e]

(***************************************************************************)
(* rischDE(fa, fd, ga, gd, D, T), one action per statement.                *)
(***************************************************************************)
RischInputs ==
    {[fa |-> fa, fd |-> fd, ga |-> ga, gd |-> gd, D |-> tw.D, T |-> tw.T] :
        fa \in Polys, fd \in Denoms, ga \in Polys, gd \in Denoms, tw \in Towers}

Init ==
    /\ pc = "weak_normalizer"
    /\ inp \in RischInputs
    /\ loc = [fa |-> inp.fa, fd |-> inp.fd, n |-> NInt(0)]
    /\ out = NoOut
    /\ warnings = 0

Fail(e) ==
    /\ pc' = "done"
    /\ out' = Raised(e)
    /\ UNCHANGED <<inp, loc, warnings>>

\* line 493: _, (fa, fd) = weak_normalizer(fa, fd, D, T)
CallWeakNormalizer ==
    /\ pc = "weak_normalizer"
    /\ \E r \in {weak_normalizer(loc.fa, loc.fd, inp.D, inp.T)} :
           IF r.tag # "ok" THEN Fail(r.tag)
           ELSE /\ loc' = [fa |-> r.a, fd |-> r.d, n |-> loc.n]
                /\ pc' = "normal_denom"
                /\ UNCHANGED <<inp, out, warnings>>

\* line 494: a, (ba, bd), (ca, cd), hn = normal_denom(fa, fd, ga, gd, D, T)
CallNormalDenom ==
    /\ pc = "normal_denom"
    /\ \E r \in {normal_denom(loc.fa, loc.fd, inp.ga, inp.gd, inp.D, inp.T)} :
           IF r.tag # "ok" THEN Fail(r.tag)
           ELSE /\ loc' = [a |-> r.a, ba |-> r.ba, bd |-> r.bd, ca |-> r.ca,
                           cd |-> r.cd, hn |-> r.h, n |-> loc.n]
                /\ pc' = "special_denom"
                /\ UNCHANGED <<inp, out, warnings>>

\* line 495: A, B, C, hs = special_denom(a, ba, bd, ca, cd, D, T)
CallSpecialDenom ==
    /\ pc = "special_denom"
    /\ \E r \in {special_denom(loc.a, loc.ba, loc.bd, loc.ca, loc.cd, inp.D, inp.T)} :
           IF r.tag # "ok" THEN Fail(r.tag)
           ELSE /\ loc' = [A |-> r.A, B |-> r.B, C |-> r.C, hs |-> r.h,
                           hn |-> loc.hn, n |-> loc.n]
                /\ pc' = "bound_degree"
                /\ UNCHANGED <<inp, out, warnings>>

\* the try statement left out: every exception of bound_degree leaves
\* rischDE
CallBoundDegreeNoRecovery ==
    /\ pc = "bound_degree"
    /\ \E r \in {bound_degree(loc.A, loc.B, loc.C, inp.D, inp.T)} :
           IF r.tag # "ok" THEN Fail(r.tag)
           ELSE /\ loc' = [loc EXCEPT !.n = NInt(r.val)]
                /\ pc' = "spde"
                /\ UNCHANGED <<inp, out, warnings>>

\* lines 496-506: n = bound_degree(A, B, C, D, T), with n = oo and a
\* warning on NotImplementedError
CallBoundDegree ==
    /\ pc = "bound_degree"
    /\ \E r \in {bound_degree(loc.A, loc.B, loc.C, inp.D, inp.T)} :
           IF r.tag = "NotImplementedError"
           THEN /\ loc' = [loc EXCEPT !.n = oo]
                /\ warnings' = warnings + 1
                /\ pc' = "spde"
                /\ UNCHANGED <<inp, out>>
           ELSE IF r.tag # "ok" THEN Fail(r.tag)
           ELSE /\ loc' = [loc EXCEPT !.n = NInt(r.val)]
                /\ pc' = "spde"
                /\ UNCHANGED <<inp, out, warnings>>

\* line 508: B, C, m, alpha, beta = spde(A, B, C, D, n, T)
CallSpde ==
    /\ pc = "spde"
    /\ \E r \in {spde(loc.A, loc.B, loc.C, inp.D, loc.n, inp.T)} :
           IF r.tag # "ok" THEN Fail(r.tag)
           ELSE /\ loc' = [B |-> r.B, C |-> r.C, m |-> r.m, alpha |-> r.alpha,
                           beta |-> r.beta, hs |-> loc.hs, hn |-> loc.hn,
                           n |-> loc.n]
                /\ pc' = "solve_poly_rde"
                /\ UNCHANGED <<inp, out, warnings>>

\* lines 509-511: y = solve_poly_rde(B, C, D, n, T);
\* return (alpha*y + beta, hn*hs)
CallSolvePolyRde ==
    /\ pc = "solve_poly_rde"
    /\ \E r \in {solve_poly_rde(loc.B, loc.C, inp.D, loc.n, inp.T)} :
           IF r.tag # "ok" THEN Fail(r.tag)
           ELSE /\ out' = Returned(<<PAdd(PMul(loc.alpha, r.q), loc.beta),
                                     PMul(loc.hn, loc.hs)>>)
                /\ pc' = "done"
                /\ UNCHANGED <<inp, loc, warnings>>

Next ==
    \/ CallWeakNormalizer
    \/ CallNormalDenom
    \/ CallSpecialDenom
    \/ CallBoundDegree
    \/ CallSpde
    \/ CallSolvePolyRde

Spec == Init /\ [][Next]_vars

(***************************************************************************)
(* order_at(a, p, t), one action per step of lines 46-60.                  *)
(***************************************************************************)
\* every a, and every p of positive degree
OrderAtInputs ==
    {[a |-> a, p |-> p, t |-> "t"] :
        a \in PolysUpTo(MaxDeg + 2),
        p \in {p \in PolysUpTo(MaxDeg + 1) : PDegree(p) >= 1}}

InitOrderAt ==
    /\ pc = "order_at"
    /\ inp \in OrderAtInputs
    /\ loc = << >>
    /\ out = NoOut
    /\ warnings = 0

\* the zero check made only on the general path
OrderAtEnterLateCheck ==
    /\ pc = "order_at"
    /\ IF inp.p = PGen
       THEN /\ pc' = "done"
            /\ out' = Returned(order_at_fast(inp.a))
            /\ UNCHANGED <<inp, loc, warnings>>
       ELSE IF PIsZero(inp.a) THEN Fail("ValueError")
       ELSE /\ pc' = "order_at_loop"
            /\ loc' = [n |-> -1, p1 |-> POne, r |-> PZero]
            /\ UNCHANGED <<inp, out, warnings>>

\* lines 46-54: the zero check, the fast path, the loop's initialisation
OrderAtEnter ==
    /\ pc = "order_at"
    /\ IF PIsZero(inp.a) THEN Fail("ValueError")
       ELSE IF inp.p = PGen
       THEN /\ pc' = "done"
            /\ out' = Returned(order_at_fast(inp.a))
            /\ UNCHANGED <<inp, loc, warnings>>
       ELSE /\ pc' = "order_at_loop"
            /\ loc' = [n |-> -1, p1 |-> POne, r |-> PZero]
            /\ UNCHANGED <<inp, out, warnings>>

\* lines 55-58: one iteration of while r.is_zero
OrderAtIterate ==
    /\ pc = "order_at_loop"
    /\ PIsZero(loc.r)
    /\ loc' = [n |-> loc.n + 1, p1 |-> PMul(loc.p1, inp.p),
               r |-> PRem(inp.a, PMul(loc.p1, inp.p))]
    /\ UNCHANGED <<pc, inp, out, warnings>>

\* line 60: return n
OrderAtReturn ==
    /\ pc = "order_at_loop"
    /\ ~PIsZero(loc.r)
    /\ pc' = "done"
    /\ out' = Returned(loc.n)
    /\ UNCHANGED <<inp, loc, warnings>>

NextOrderAt ==
    \/ OrderAtEnter
    \/ OrderAtIterate
    \/ OrderAtReturn

SpecOrderAt == InitOrderAt /\ [][NextOrderAt]_vars

(***************************************************************************)
(* weak_normalizer(a, d, D, T), one action per return path.                *)
(***************************************************************************)
MaxX == 2

\* a = (1+x)t^5 + 4t^4 + (-1-3x)t^3 - 4t^2 + (-2+2x)t of test_rde.py
BronsteinA(x) ==
    PTrim(<<QZero, QInt(2 * x - 2), QInt(-4), QInt(0 - 1 - 3 * x), QInt(4),
            QInt(1 + x)>>)

\* d = t^4 - 3t^2 + 2
BronsteinD == <<QInt(2), QZero, QInt(-3), QZero, QOne>>

OnePlusTSquared == <<QOne, QZero, QOne>>

TSquaredMinusOne == <<QInt(-1), QZero, QOne>>

\* the three calls of test_weak_normalizer, the base variable x of the
\* coefficients specialised to an integer
TestInputs ==
    {[a |-> BronsteinA(x), d |-> BronsteinD, D |-> ExpTower.D,
      T |-> ExpTower.T, x |-> x] : x \in (0 - MaxX)..MaxX}
    \cup {[a |-> OnePlusTSquared, d |-> TSquaredMinusOne, D |-> ExpTower.D,
           T |-> ExpTower.T, x |-> 0],
          [a |-> OnePlusTSquared, d |-> PGen, D |-> TanTower.D,
           T |-> TanTower.T, x |-> 0]}

WeakNormalizerInputs ==
    {[a |-> a, d |-> d, D |-> tw.D, T |-> tw.T, x |-> 0] :
        a \in PolysUpTo(MaxDeg + 1),
        d \in PolysUpTo(MaxDeg + 1) \ {PZero},
        tw \in Towers}
    \cup TestInputs

InitWeakNormalizer ==
    /\ pc = "wn_start"
    /\ inp \in WeakNormalizerInputs
    /\ loc = << >>
    /\ out = NoOut
    /\ warnings = 0

\* lines 79-91: d1, the Diophantine equation and the resultant r
WnLocals(a, d, D, T, d1, Dd1) ==
    IF gcdex_diophantine(PQuo(d, d1), d1, a).tag # "ok"
    THEN Fail(gcdex_diophantine(PQuo(d, d1), d1, a).tag)
    ELSE /\ pc' = "wn_roots"
         /\ loc' = [d1 |-> d1, Dd1 |-> Dd1, r |-> resultant(a, Dd1, d1)]
         /\ UNCHANGED <<inp, out, warnings>>

WnResultant ==
    /\ pc = "wn_start"
    /\ \E d1 \in {SquareFreeCore(SplitNormal(inp.d, inp.D, inp.T))} :
           WnLocals(inp.a, inp.d, inp.D, inp.T, d1,
                    derivation(d1, inp.D, inp.T))

\* the input pair cancelled on the degenerate path as well
WnDegenerateCancelled ==
    /\ pc = "wn_roots"
    /\ PDegree(loc.r) < 1
    /\ pc' = "done"
    /\ \E w \in {weak_normalizer_cancel(POne, inp.a, inp.d)} :
           out' = Returned([q |-> w.q, a |-> w.a, d |-> w.d])
    /\ UNCHANGED <<inp, loc, warnings>>

\* lines 93-94: the resultant does not involve z
WnDegenerate ==
    /\ pc = "wn_roots"
    /\ PDegree(loc.r) < 1
    /\ pc' = "done"
    /\ out' = Returned([q |-> POne, a |-> inp.a, d |-> inp.d])
    /\ UNCHANGED <<inp, loc, warnings>>

\* lines 96-106: q from the positive integer roots, then the cancellation
WnGeneral ==
    /\ pc = "wn_roots"
    /\ PDegree(loc.r) >= 1
    /\ \E w \in {weak_normalizer_q(inp.a, inp.d, inp.D, inp.T,
                     ProductOfGcds(inp.a, loc.Dd1, loc.d1,
                                   positive_integer_roots(loc.r)))} :
           /\ pc' = "done"
           /\ out' = Returned([q |-> w.q, a |-> w.a, d |-> w.d])
           /\ UNCHANGED <<inp, loc, warnings>>

NextWeakNormalizer ==
    \/ WnResultant
    \/ WnDegenerate
    \/ WnGeneral

SpecWeakNormalizer == InitWeakNormalizer /\ [][NextWeakNormalizer]_vars

(***************************************************************************)
(* Properties of rischDE, checked under Spec.                              *)
(***************************************************************************)

\* D(num/den) + (fa/fd)*(num/den) == ga/gd, cleared of denominators
RdeHolds(num, den, fa, fd, ga, gd, D, T) ==
    /\ ~PIsZero(den)
    /\ PAdd(PMul(PMul(gd, fd),
                 PSub(PMul(derivation(num, D, T), den),
                      PMul(num, derivation(den, D, T)))),
            PMul(PMul(gd, fa), PMul(num, den)))
       = PMul(PMul(ga, fd), PMul(den, den))

\* C1: whenever rischDE returns (num, den), y = num/den satisfies
\* Dy + f*y == g for the original f = fa/fd and g = ga/gd.
C1_SolutionSatisfiesOriginalEquation ==
    (pc = "done" /\ out.kind = "return")
        => RdeHolds(out.val[1], out.val[2], inp.fa, inp.fd, inp.ga, inp.gd,
                    inp.D, inp.T)

\* the recursion cut of the model, no outcome of the program
DepthCut == "RuntimeError"

\* C2: every call of rischDE ends in a returned solution, in
\* NonElementaryIntegral or in NotImplementedError, never in ValueError or
\* another error type.
C2_OnlyThreeOutcomes ==
    pc = "done"
        => out.kind \in {"return", "NonElementaryIntegral",
                         "NotImplementedError", DepthCut}

\* the check of lines 128-131 on the arguments normal_denom is called with
DivisibilityCheckFails ==
    LET dn == SplitNormal(loc.fd, inp.D, inp.T)
        en == SplitNormal(inp.gd, inp.D, inp.T)
        p  == PGcd(dn, en)
        h  == PQuo(PGcd(en, PDiff(en)), PGcd(p, PDiff(p)))
    IN  ~PIsZero(PRem(PMul(PMul(dn, h), h), en))

\* C3: when the divisibility check of normal_denom fails, rischDE ends at
\* that step with NonElementaryIntegral: no later stage is started and the
\* outcome is never NotImplementedError.
C3_DivisibilityFailureIsUnsolvable ==
    [][(pc = "normal_denom" /\ DivisibilityCheckFails)
          => (pc' = "done" /\ out' = Raised("NonElementaryIntegral")
              /\ loc' = loc)]_vars

C3_Witness ==
    /\ pc = "done"
    /\ out = Raised("NonElementaryIntegral")
    /\ DOMAIN loc = {"fa", "fd", "n"}
    /\ DivisibilityCheckFails

\* the order of a nonzero a at p, by repeated division
OrderOf(a, p) == order_at_loop(a, p, -1, POne)

SpecialPrime(D, T) ==
    IF get_case(Last(D), Last(T)) = "exp" THEN PGen ELSE OnePlusTSquared

\* special_denom was entered in the exp or tan case with nb == 0
ZeroOrderAtSpecialDenom ==
    /\ "ba" \in DOMAIN loc
    /\ get_case(Last(inp.D), Last(inp.T)) \in {"exp", "tan"}
    /\ ~PIsZero(loc.ba)
    /\ OrderOf(loc.ba, SpecialPrime(inp.D, inp.T))
       = OrderOf(loc.bd, SpecialPrime(inp.D, inp.T))

\* C4: an exp or tan input with nb == 0 in special_denom makes rischDE end
\* with NotImplementedError, whatever c is (c == 0 included).
C4_ZeroOrderIsIncomplete ==
    (pc = "done" /\ ZeroOrderAtSpecialDenom)
        => out = Raised("NotImplementedError")

\* T = [x], D = d/dx, f = 0/1, g = 1/1
IsScenarioOne ==
    /\ inp.T = BaseTower.T
    /\ inp.D = BaseTower.D
    /\ inp.fa = PZero /\ inp.fd = POne
    /\ inp.ga = POne /\ inp.gd = POne

\* C5: on T = [x], f = 0/1, g = 1/1 rischDE returns y = x with denominator
\* 1; the degree bound is 1, spde leaves the equation as it is (alpha = 1,
\* beta = 0) and solve_poly_rde takes the branch of no_cancel_b_small.
C5_BaseFieldScenario ==
    IsScenarioOne =>
        /\ pc = "done" => out = Returned(<<PGen, POne>>)
        /\ pc \in {"spde", "solve_poly_rde"} => loc.n = NInt(1)
        /\ pc = "solve_poly_rde" =>
              /\ loc.alpha = POne /\ loc.beta = PZero /\ loc.m = NInt(1)
              /\ loc.B = PZero /\ loc.C = POne
              /\ no_cancel_b_small(loc.B, loc.C, inp.D, loc.n, inp.T)
                 = [tag |-> "ok", kind |-> "poly", q |-> PGen]

C5_Witness ==
    IsScenarioOne /\ pc = "done" /\ out.kind = "return"

(***************************************************************************)
(* Properties of order_at, checked under SpecOrderAt.                      *)
(***************************************************************************)
Divides(p, a) == PIsZero(PRem(a, p))

IsOrder(a, p, n) == n >= 0 /\ Divides(PPow(p, n), a) /\ ~Divides(PPow(p, n + 1), a)

\* C6: for nonzero a and p of positive degree order_at returns the one
\* n >= 0 with p^n | a and p^(n+1) not | a, on the fast path of p == t as
\* the division loop would.
C6_OrderIsTheValuation ==
    (~PIsZero(inp.a) /\ pc = "done")
        => /\ out.kind = "return"
           /\ IsOrder(inp.a, inp.p, out.val)
           /\ \A m \in 0..(PDegree(inp.a) + 1) :
                  IsOrder(inp.a, inp.p, m) => m = out.val
           /\ inp.p = PGen => out.val = OrderOf(inp.a, inp.p)

C6_Witness ==
    /\ pc = "done" /\ out.kind = "return" /\ out.val = 2
    /\ PDegree(inp.p) = 1 /\ inp.p # PGen

\* C7: order_at with a == 0 raises ValueError, for p == t and for every
\* other p: it returns no value and never enters the loop.
C7_ZeroRaisesValueError ==
    PIsZero(inp.a)
        => \/ pc = "order_at" /\ out = NoOut
           \/ pc = "done" /\ out = Raised("ValueError")

C7_Witness ==
    PIsZero(inp.a) /\ inp.p # PGen /\ pc = "done" /\ out = Raised("ValueError")

(***************************************************************************)
(* Properties of weak_normalizer, checked under SpecWeakNormalizer.        *)
(***************************************************************************)

\* C8: the result (q, (a1, d1)) of weak_normalizer satisfies
\* a1/d1 == a/d - D(q)/q, that is a1*(q*d) == d1*(q*a - d*D(q)), on the
\* return with q = 1 and on the general return.
C8_RoundTrip ==
    (pc = "done" /\ out.kind = "return")
        => /\ ~PIsZero(out.val.d)
           /\ ~PIsZero(out.val.q)
           /\ PMul(out.val.a, PMul(out.val.q, inp.d))
              = PMul(out.val.d,
                     PSub(PMul(out.val.q, inp.a),
                          PMul(inp.d, derivation(out.val.q, inp.D, inp.T))))

C8_Witness ==
    /\ pc = "done" /\ out.kind = "return"
    /\ PDegree(out.val.q) >= 1
    /\ ~PIsZero(out.val.a)

IsBronsteinExample ==
    /\ inp.a = BronsteinA(inp.x)
    /\ inp.d = BronsteinD
    /\ inp.D = ExpTower.D

\* q = t^5 - t^4 - 4t^3 + 4t^2 + 4t - 4
BronsteinQ == <<QInt(-4), QInt(4), QInt(4), QInt(-4), QInt(-1), QOne>>

\* C9: in the exponential tower weak_normalizer of
\* a = (1+x)t^5 + 4t^4 + (-1-3x)t^3 - 4t^2 + (-2+2x)t, d = t^4 - 3t^2 + 2
\* returns q = t^5 - t^4 - 4t^3 + 4t^2 + 4t - 4 and ((1+x)t^2 + x*t, t + 1);
\* q is the product of gcd(a - n*D(d1), d1) over the list 1, 2, 2 of the
\* resultant's positive integer roots.
C9_BronsteinExample ==
    IsBronsteinExample =>
        /\ pc \in {"wn_roots", "done"} =>
              /\ positive_integer_roots(loc.r) = <<1, 2, 2>>
              /\ ProductOfGcds(inp.a, loc.Dd1, loc.d1, <<1, 2, 2>>)
                 = BronsteinQ
        /\ pc = "done" =>
              out = Returned([q |-> BronsteinQ,
                              a |-> PTrim(<<QZero, QInt(inp.x),
                                            QInt(1 + inp.x)>>),
                              d |-> <<QOne, QOne>>])

C9_Witness ==
    IsBronsteinExample /\ inp.x = 1 /\ pc = "done" /\ out.kind = "return"

IsTangentExample ==
    /\ inp.a = OnePlusTSquared
    /\ inp.d = PGen
    /\ inp.D = TanTower.D

\* C10: in the hypertangent tower weak_normalizer of a = 1 + t^2, d = t
\* returns q = t and the pair (0, t^2), the zero numerator with the
\* denominator t^2 and not with the denominator 1.
C10_TangentExample ==
    (IsTangentExample /\ pc = "done")
        => out = Returned([q |-> PGen, a |-> PZero,
                           d |-> <<QZero, QZero, QOne>>])

(***************************************************************************)
(* normal_denom followed by special_denom on an equation Dy + f*y == g     *)
(* built from a chosen solution y = yn/yd (lines 494-495 of rischDE).      *)
(***************************************************************************)
\* the equation Dy + f*y == g with solution y = yn/yd; g is the pair
\* cancel(...) of its numerator and denominator
RdeFromSolution(fa, fd, yn, yd, tw, g) ==
    [fa |-> fa, fd |-> fd, ga |-> g[1], gd |-> g[2], D |-> tw.D, T |-> tw.T,
     yn |-> yn, yd |-> yd]

InitDenominators ==
    /\ pc = "normal_denom"
    /\ inp \in
         {RdeFromSolution(fa, fd, yn, yd, tw,
              cancel(PAdd(PMul(PSub(PMul(derivation(yn, tw.D, tw.T), yd),
                                    PMul(yn, derivation(yd, tw.D, tw.T))),
                               fd),
                          PMul(fa, PMul(yn, yd))),
                     PMul(PMul(yd, yd), fd))) :
            fa \in Polys, fd \in Denoms, yn \in Polys, yd \in Denoms,
            tw \in Towers}
    /\ loc = [fa |-> inp.fa, fd |-> inp.fd, n |-> NInt(0)]
    /\ out = NoOut
    /\ warnings = 0

SpecDenominators ==
    InitDenominators /\ [][CallNormalDenom \/ CallSpecialDenom]_vars

\* a*D(qn/qd) + (bn/bd)*(qn/qd) == cn/cd, cleared of denominators
PolyRdeHolds(a, bn, bd, cn, cd, qn, qd, D, T) ==
    /\ ~PIsZero(qd) /\ ~PIsZero(bd) /\ ~PIsZero(cd)
    /\ PMul(cd,
            PAdd(PMul(PMul(a, bd),
                      PSub(PMul(derivation(qn, D, T), qd),
                           PMul(qn, derivation(qd, D, T)))),
                 PMul(bn, PMul(qn, qd))))
       = PMul(PMul(cn, bd), PMul(qd, qd))

\* C11: for y with Dy + f*y == g, q = y*h satisfies a*Dq + b*q == c after
\* normal_denom, and r = y*h*hs satisfies A*Dr + B*r == C after
\* special_denom.
C11_DenominatorRoundTrip ==
    /\ pc = "special_denom" =>
          PolyRdeHolds(loc.a, loc.ba, loc.bd, loc.ca, loc.cd,
                       PMul(inp.yn, loc.hn), inp.yd, inp.D, inp.T)
    /\ pc = "bound_degree" =>
          PolyRdeHolds(loc.A, loc.B, POne, loc.C, POne,
                       PMul(inp.yn, PMul(loc.hn, loc.hs)), inp.yd,
                       inp.D, inp.T)

C11_Witness ==
    /\ pc = "bound_degree"
    /\ ~PIsZero(inp.yn)
    /\ PDegree(inp.yd) >= 1
    /\ PDegree(loc.hs) >= 1

(***************************************************************************)
(* spde(a, b, c, D, n, T), one action per invocation and one per return.   *)
(* loc holds the arguments of the invocation under execution, loc.stack    *)
(* the suspended invocations (their arguments, the divided a and r), and   *)
(* loc.res the tuple the last finished invocation returned.                *)
(***************************************************************************)
InitSpde ==
    /\ pc = "spde"
    /\ \E a \in Polys \ {PZero}, b \in Polys, tw \in Towers :
       \E c \in Polys \cup {PAdd(PMul(a, derivation(q, tw.D, tw.T)), PMul(b, q)) :
                               q \in Polys} :
       \E n \in {NInt(k) : k \in (-1)..(MaxDeg + 1)} \cup {oo} :
           inp = [a |-> a, b |-> b, c |-> c, n |-> n, D |-> tw.D, T |-> tw.T]
    /\ loc = [a |-> inp.a, b |-> inp.b, c |-> inp.c, n |-> inp.n,
              stack |-> << >>, res |-> Raise("none")]
    /\ out = NoOut
    /\ warnings = 0

\* lines 298-317: one invocation up to its return, its raise or its
\* recursive call
SpdeCall ==
    /\ pc = "spde"
    /\ IF Len(loc.stack) > MaxRecursion THEN Fail("RuntimeError")
       ELSE IF NNeg(loc.n)
       THEN IF PIsZero(loc.c)
            THEN /\ loc' = [loc EXCEPT !.res =
                              [tag |-> "ok", B |-> PZero, C |-> PZero,
                               m |-> NInt(0), alpha |-> PZero, beta |-> PZero]]
                 /\ pc' = "spde_return"
                 /\ UNCHANGED <<inp, out, warnings>>
            ELSE Fail("NonElementaryIntegral")
       ELSE \E g \in {PGcd(loc.a, loc.b)} :
            IF ~PIsZero(PRem(loc.c, g)) THEN Fail("NonElementaryIntegral")
            ELSE \E a \in {PQuo(loc.a, g)}, b \in {PQuo(loc.b, g)},
                    c \in {PQuo(loc.c, g)} :
                 IF PDegree(a) = 0
                 THEN /\ loc' = [loc EXCEPT !.res =
                                   [tag |-> "ok", B |-> PQuo(b, a),
                                    C |-> PQuo(c, a), m |-> loc.n,
                                    alpha |-> POne, beta |-> PZero]]
                      /\ pc' = "spde_return"
                      /\ UNCHANGED <<inp, out, warnings>>
                 ELSE \E rz \in {gcdex_diophantine(b, a, c)} :
                      IF rz.tag # "ok" THEN Fail(rz.tag)
                      ELSE /\ loc' = [a |-> a,
                                      b |-> PAdd(b, derivation(a, inp.D, inp.T)),
                                      c |-> PSub(rz.val[2],
                                                 derivation(rz.val[1], inp.D, inp.T)),
                                      n |-> NSub(loc.n, PDegree(a)),
                                      stack |-> Append(loc.stack,
                                                  [a |-> loc.a, b |-> loc.b,
                                                   c |-> loc.c, n |-> loc.n,
                                                   ad |-> a, r |-> rz.val[1]]),
                                      res |-> loc.res]
                           /\ UNCHANGED <<pc, inp, out, warnings>>

\* lines 317-319: the invocation below returned; the suspended one builds
\* (B, C, m, a*alpha, a*beta + r), the outermost one hands it to the caller
SpdeReturn ==
    /\ pc = "spde_return"
    /\ IF loc.stack = << >>
       THEN /\ out' = Returned(loc.res)
            /\ pc' = "done"
            /\ UNCHANGED <<inp, loc, warnings>>
       ELSE \E F \in {Last(loc.stack)} :
            /\ loc' = [a |-> F.a, b |-> F.b, c |-> F.c, n |-> F.n,
                       stack |-> Front(loc.stack),
                       res |-> spde_compose(F.ad, F.r, loc.res)]
            /\ UNCHANGED <<pc, inp, out, warnings>>

NextSpde == SpdeCall \/ SpdeReturn

SpecSpde == InitSpde /\ [][NextSpde]_vars

\* the candidates h of the contract
SpdeCandidates == PolysUpTo(MaxDeg + 1)

\* h is admitted by the returned tuple: deg(h) <= m and Dh + B*h == C
SpdeAdmits(res, h) ==
    /\ res.m.inf \/ PDegree(h) <= res.m.v
    /\ PAdd(derivation(h, inp.D, inp.T), PMul(res.B, h)) = res.C

\* q solves a*Dq + b*q == c
SolvesPolyRde(a, b, c, q) ==
    PAdd(PMul(a, derivation(q, inp.D, inp.T)), PMul(b, q)) = c

\* C12: whenever an invocation of spde, at any depth, returns
\* (B, C, m, alpha, beta), every h with deg(h) <= m and Dh + B*h == C gives
\* q = alpha*h + beta with a*Dq + b*q == c for the a, b, c of that
\* invocation.
C12_SpdeContract ==
    pc = "spde_return" =>
        \A h \in SpdeCandidates :
            SpdeAdmits(loc.res, h) =>
                SolvesPolyRde(loc.a, loc.b, loc.c,
                              PAdd(PMul(loc.res.alpha, h), loc.res.beta))

C12_Witness ==
    /\ pc = "spde_return"
    /\ loc.stack = << >>
    /\ PDegree(loc.res.alpha) >= 1
    /\ ~PIsZero(loc.res.beta)
    /\ \E h \in SpdeCandidates : ~PIsZero(h) /\ SpdeAdmits(loc.res, h)

(***************************************************************************)
(* no_cancel_b_large, no_cancel_b_small and no_cancel_equal, one action    *)
(* per pass through the while loop.  pc names the function, inp holds its  *)
(* arguments, loc the loop variables q, c and n.                           *)
(***************************************************************************)
InitNoCancel ==
    /\ pc \in {"no_cancel_b_large", "no_cancel_b_small", "no_cancel_equal"}
    /\ \E b \in Polys, tw \in Towers :
       \E c \in Polys \cup {PAdd(derivation(q, tw.D, tw.T), PMul(b, q)) :
                               q \in Polys} :
       \E n \in {NInt(k) : k \in (-1)..(MaxDeg + 1)} \cup {oo} :
           /\ pc # "no_cancel_b_small" => ~PIsZero(b)
           /\ inp = [b |-> b, c |-> c, n |-> n, D |-> tw.D, T |-> tw.T]
    /\ loc = [q |-> PZero, c |-> inp.c, n |-> inp.n]
    /\ out = NoOut
    /\ warnings = 0

\* c = c - b*p, the derivative of p left out
NoCancelBLargeIterateNoDerivative ==
    /\ pc = "no_cancel_b_large"
    /\ IF PIsZero(loc.c)
       THEN /\ out' = Returned([kind |-> "poly", q |-> loc.q])
            /\ pc' = "done"
            /\ UNCHANGED <<inp, loc, warnings>>
       ELSE \E m \in {PDegree(loc.c) - PDegree(inp.b)} :
            IF ~InRange(m, loc.n) THEN Fail("NonElementaryIntegral")
            ELSE \E p \in {PMonomial(QDiv(PLC(loc.c), PLC(inp.b)), m)} :
                 /\ loc' = [q |-> PAdd(loc.q, p), n |-> NInt(m - 1),
                            c |-> PSub(loc.c, PMul(inp.b, p))]
                 /\ UNCHANGED <<pc, inp, out, warnings>>

\* lines 335-345
NoCancelBLargeIterate ==
    /\ pc = "no_cancel_b_large"
    /\ IF PIsZero(loc.c)
       THEN /\ out' = Returned([kind |-> "poly", q |-> loc.q])
            /\ pc' = "done"
            /\ UNCHANGED <<inp, loc, warnings>>
       ELSE \E m \in {PDegree(loc.c) - PDegree(inp.b)} :
            IF ~InRange(m, loc.n) THEN Fail("NonElementaryIntegral")
            ELSE \E p \in {PMonomial(QDiv(PLC(loc.c), PLC(inp.b)), m)} :
                 /\ loc' = [q |-> PAdd(loc.q, p), n |-> NInt(m - 1),
                            c |-> PSub(PSub(loc.c, derivation(p, inp.D, inp.T)),
                                       PMul(inp.b, p))]
                 /\ UNCHANGED <<pc, inp, out, warnings>>

\* the working bound set to m, not m - 1
NoCancelBSmallIterateKeepsBound ==
    /\ pc = "no_cancel_b_small"
    /\ IF PIsZero(loc.c)
       THEN /\ out' = Returned([kind |-> "poly", q |-> loc.q])
            /\ pc' = "done"
            /\ UNCHANGED <<inp, loc, warnings>>
       ELSE \E d \in {Last(inp.D)} :
            \E m \in {no_cancel_b_small_m(loc.c, d, loc.n)} :
            IF ~InRange(m, loc.n) THEN Fail("NonElementaryIntegral")
            ELSE IF m = 0 /\ PDegree(inp.b) # PDegree(loc.c)
            THEN Fail("NonElementaryIntegral")
            ELSE IF m = 0 /\ PDegree(inp.b) = 0
            THEN IF Len(inp.T) < 2 THEN Fail("IndexError")
                 ELSE /\ out' = Returned([kind |-> "tuple", q |-> loc.q,
                                          b0 |-> inp.b, c0 |-> loc.c])
                      /\ pc' = "done"
                      /\ UNCHANGED <<inp, loc, warnings>>
            ELSE \E p \in {IF m > 0
                           THEN PMonomial(QDiv(PLC(loc.c),
                                               QMul(QInt(m), PLC(d))), m)
                           ELSE PConst(QDiv(PLC(loc.c), PLC(inp.b)))} :
                 /\ loc' = [q |-> PAdd(loc.q, p), n |-> NInt(m),
                            c |-> PSub(PSub(loc.c, derivation(p, inp.D, inp.T)),
                                       PMul(inp.b, p))]
                 /\ UNCHANGED <<pc, inp, out, warnings>>

\* lines 365-387
NoCancelBSmallIterate ==
    /\ pc = "no_cancel_b_small"
    /\ IF PIsZero(loc.c)
       THEN /\ out' = Returned([kind |-> "poly", q |-> loc.q])
            /\ pc' = "done"
            /\ UNCHANGED <<inp, loc, warnings>>
       ELSE \E d \in {Last(inp.D)} :
            \E m \in {no_cancel_b_small_m(loc.c, d, loc.n)} :
            IF ~InRange(m, loc.n) THEN Fail("NonElementaryIntegral")
            ELSE IF m = 0 /\ PDegree(inp.b) # PDegree(loc.c)
            THEN Fail("NonElementaryIntegral")
            ELSE IF m = 0 /\ PDegree(inp.b) = 0
            THEN IF Len(inp.T) < 2 THEN Fail("IndexError")
                 ELSE /\ out' = Returned([kind |-> "tuple", q |-> loc.q,
                                          b0 |-> inp.b, c0 |-> loc.c])
                      /\ pc' = "done"
                      /\ UNCHANGED <<inp, loc, warnings>>
            ELSE \E p \in {IF m > 0
                           THEN PMonomial(QDiv(PLC(loc.c),
                                               QMul(QInt(m), PLC(d))), m)
                           ELSE PConst(QDiv(PLC(loc.c), PLC(inp.b)))} :
                 /\ loc' = [q |-> PAdd(loc.q, p), n |-> NInt(m - 1),
                            c |-> PSub(PSub(loc.c, derivation(p, inp.D, inp.T)),
                                       PMul(inp.b, p))]
                 /\ UNCHANGED <<pc, inp, out, warnings>>

\* lines 407-434
NoCancelEqualIterate ==
    /\ pc = "no_cancel_equal"
    /\ IF PIsZero(loc.c)
       THEN /\ out' = Returned([kind |-> "poly", q |-> loc.q])
            /\ pc' = "done"
            /\ UNCHANGED <<inp, loc, warnings>>
       ELSE \E d \in {Last(inp.D)} :
            \E lc \in {QDiv(QNeg(PLC(inp.b)), PLC(d))} :
            \E M \in {IF QIsInteger(lc) /\ lc[1] > 0 THEN lc[1] ELSE -1} :
            \E m \in {Max2(M, PDegree(loc.c) - PDegree(d) + 1)} :
            IF ~InRange(m, loc.n) THEN Fail("NonElementaryIntegral")
            ELSE \E u \in {QAdd(QMul(QInt(m), PLC(d)), PLC(inp.b))} :
                 IF QIsZero(u)
                 THEN /\ out' = Returned([kind |-> "tuple", q |-> loc.q,
                                          m |-> m, C |-> loc.c])
                      /\ pc' = "done"
                      /\ UNCHANGED <<inp, loc, warnings>>
                 ELSE IF m <= 0 /\ PDegree(loc.c) # PDegree(d) - 1
                 THEN Fail("NonElementaryIntegral")
                 ELSE \E p \in {IF m > 0 THEN PMonomial(QDiv(PLC(loc.c), u), m)
                                ELSE PConst(QDiv(PLC(loc.c), PLC(inp.b)))} :
                      /\ loc' = [q |-> PAdd(loc.q, p), n |-> NInt(m - 1),
                                 c |-> PSub(PSub(loc.c,
                                                 derivation(p, inp.D, inp.T)),
                                            PMul(inp.b, p))]
                      /\ UNCHANGED <<pc, inp, out, warnings>>

NextNoCancel ==
    NoCancelBLargeIterate \/ NoCancelBSmallIterate \/ NoCancelEqualIterate

SpecNoCancel == InitNoCancel /\ [][NextNoCancel]_vars

\* C13: the loops of no_cancel_b_large, no_cancel_b_small and
\* no_cancel_equal keep D(q) + b*q + c_current == c_initial, and a returned
\* polynomial q satisfies Dq + b*q == c for the c passed in and
\* deg(q) <= n.
C13_PeelingLoopsSolve ==
    /\ pc # "done" =>
          PAdd(PAdd(derivation(loc.q, inp.D, inp.T), PMul(inp.b, loc.q)),
               loc.c) = inp.c
    /\ (pc = "done" /\ out.kind = "return" /\ out.val.kind = "poly") =>
          /\ PAdd(derivation(out.val.q, inp.D, inp.T),
                  PMul(inp.b, out.val.q)) = inp.c
          /\ PIsZero(loc.c)
          /\ inp.n.inf \/ PDegree(out.val.q) <= inp.n.v

C13_Witness ==
    /\ pc = "done"
    /\ out.kind = "return"
    /\ out.val.kind = "poly"
    /\ PDegree(out.val.q) >= 1
    /\ ~PIsZero(inp.b)

(***************************************************************************)
(* bound_degree(a, b, c, D, T) on an equation a*Dq + b*q == c built from a *)
(* chosen polynomial solution q (lines 496-497 of rischDE).                *)
(***************************************************************************)
InitBoundDegree ==
    /\ pc = "bound_degree"
    /\ \E a \in Polys \ {PZero}, b \in Polys, q \in Polys, tw \in Towers :
           inp = [a |-> a, b |-> b, q |-> q, D |-> tw.D, T |-> tw.T,
                  c |-> PAdd(PMul(a, derivation(q, tw.D, tw.T)), PMul(b, q))]
    /\ loc = [A |-> inp.a, B |-> inp.b, C |-> inp.c, n |-> NInt(0)]
    /\ out = NoOut
    /\ warnings = 0

SpecBoundDegree == InitBoundDegree /\ [][CallBoundDegree]_vars

\* C14: in the base case D = d/dx, for a != 0 and every polynomial q with
\* a*Dq + b*q == c, the n returned by bound_degree(a, b, c) satisfies
\* deg(q) <= n.
C14_BoundDegreeSound ==
    (/\ pc = "spde"
     /\ get_case(Last(inp.D), Last(inp.T)) = "base"
     /\ ~loc.n.inf)
        => PDegree(inp.q) <= loc.n.v

\* the exception with which the call at the current position ends, "ok"
\* if it returns
StageOutcome ==
    IF pc = "weak_normalizer"
    THEN weak_normalizer(inp.fa, inp.fd, inp.D, inp.T).tag
    ELSE IF pc = "normal_denom"
    THEN normal_denom(loc.fa, loc.fd, inp.ga, inp.gd, inp.D, inp.T).tag
    ELSE IF pc = "special_denom"
    THEN special_denom(loc.a, loc.ba, loc.bd, loc.ca, loc.cd, inp.D, inp.T).tag
    ELSE IF pc = "bound_degree"
    THEN bound_degree(loc.A, loc.B, loc.C, inp.D, inp.T).tag
    ELSE IF pc = "spde"
    THEN spde(loc.A, loc.B, loc.C, inp.D, loc.n, inp.T).tag
    ELSE IF pc = "solve_poly_rde"
    THEN solve_poly_rde(loc.B, loc.C, inp.D, loc.n, inp.T).tag
    ELSE "ok"

\* one step of rischDE recovers from NotImplementedError of bound_degree
\* only, and from no NonElementaryIntegral
RecoveryStep ==
    \E e \in {StageOutcome} :
        /\ (pc = "bound_degree" /\ e = "NotImplementedError") =>
              /\ loc'.n = oo
              /\ warnings' = warnings + 1
              /\ pc' = "spde"
              /\ out' = NoOut
        /\ (pc # "bound_degree" /\ e = "NotImplementedError") =>
              /\ pc' = "done"
              /\ out' = Raised("NotImplementedError")
              /\ warnings' = warnings
        /\ e = "NonElementaryIntegral" =>
              /\ pc' = "done"
              /\ out' = Raised("NonElementaryIntegral")
              /\ warnings' = warnings
        /\ warnings' # warnings =>
              /\ pc = "bound_degree"
              /\ e = "NotImplementedError"
              /\ warnings = 0

\* C15: rischDE recovers from the NotImplementedError of bound_degree, and
\* of bound_degree only, with n = oo and exactly one warning, and goes on
\* with spde; NotImplementedError of special_denom or solve_poly_rde and
\* every NonElementaryIntegral reach the caller.
C15_OnlyBoundDegreeIsRecovered == [][RecoveryStep]_vars

C15_Witness ==
    /\ pc = "solve_poly_rde"
    /\ warnings = 1
    /\ loc.n = oo

\* C16: spde terminates for every a != 0 and every n, an integer or oo:
\* deg(a) strictly decreases from each recursive call to the next, so the
\* depth of the recursion is at most deg(a), whatever n is.
C16_SpdeDepthBoundedByDegree ==
    /\ Len(loc.stack) <= PDegree(inp.a)
    /\ \A i \in 1..Len(loc.stack) :
           PDegree(loc.stack[i].a) > 0 =>
               PDegree(IF i < Len(loc.stack) THEN loc.stack[i + 1].a ELSE loc.a)
                   < PDegree(loc.stack[i].a)
    /\ pc = "done" => out.kind # DepthCut

(***************************************************************************)
(* normal_denom(fa, fd, ga, gd, D, T) on denominators of degree up to      *)
(* MaxDeg + 1, so that fd and gd can hold a repeated factor.               *)
(***************************************************************************)
InitNormalDenom ==
    /\ pc = "normal_denom"
    /\ \E fa \in PolysUpTo(0) \cup {PGen}, ga \in PolysUpTo(0) \cup {PGen},
          tw \in Towers :
       \E fd \in {d \in PolysUpTo(MaxDeg + 1) : d # << >> /\ PLC(d) = QOne},
          gd \in {d \in PolysUpTo(MaxDeg + 1) : d # << >> /\ PLC(d) = QOne} :
           inp = [fa |-> fa, fd |-> fd, ga |-> ga, gd |-> gd,
                  D |-> tw.D, T |-> tw.T]
    /\ loc = [fa |-> inp.fa, fd |-> inp.fd, n |-> NInt(0)]
    /\ out = NoOut
    /\ warnings = 0

SpecNormalDenom == InitNormalDenom /\ [][CallNormalDenom]_vars

\* gcd(en, D(en)) / gcd(p, D(p)) with the derivation D of the tower
NormalDenomH(en, p) ==
    PQuo(PGcd(en, derivation(en, inp.D, inp.T)),
         PGcd(p, derivation(p, inp.D, inp.T)))

\* normal_denom returned a, c and h built from dn and the given h
NormalDenomBuiltFrom(dn, h) ==
    /\ loc.hn = h
    /\ loc.a = PMul(dn, h)
    /\ PMul(loc.ca, inp.gd) = PMul(PMul(PMul(PMul(dn, h), h), inp.ga), loc.cd)

\* C17 as stated: h = gcd(en, D(en)) / gcd(p, D(p)) with
\* p = gcd(normal part of fd, special part of gd), a = dn*h, c = dn*h^2.
C17_Original ==
    pc = "special_denom" =>
        \E dn \in {SplitNormal(inp.fd, inp.D, inp.T)},
           e \in {splitfactor(inp.gd, inp.D, inp.T)} :
            NormalDenomBuiltFrom(dn, NormalDenomH(e[1], PGcd(dn, e[2])))

\* C17: normal_denom computes h = gcd(en, D(en)) / gcd(p, D(p)) where en
\* is the normal part of gd, D the derivation of the tower and
\* p = gcd(normal part of fd, normal part of gd); it sets a = dn*h and
\* c = dn*h^2.
C17_NormalDenomH ==
    pc = "special_denom" =>
        \E dn \in {SplitNormal(inp.fd, inp.D, inp.T)},
           en \in {SplitNormal(inp.gd, inp.D, inp.T)} :
            NormalDenomBuiltFrom(dn, NormalDenomH(en, PGcd(dn, en)))

C17_Witness ==
    /\ pc = "special_denom"
    /\ \E dn \in {SplitNormal(inp.fd, inp.D, inp.T)},
          en \in {SplitNormal(inp.gd, inp.D, inp.T)} :
           /\ PDegree(PGcd(dn, en)) >= 2
           /\ PDegree(PGcd(en, PDiff(en))) >= 1
    /\ PIsOne(loc.hn)

\* c = dn*h^2
NormalDenomC(dn, h) == PMul(PMul(dn, h), h)

\* C18 as stated: normal_denom fails with NonElementaryIntegral exactly
\* when c = dn*h^2 does not exactly divide the normal part en of gd.
C18_Original ==
    pc # "normal_denom" =>
        \E dn \in {SplitNormal(inp.fd, inp.D, inp.T)},
           en \in {SplitNormal(inp.gd, inp.D, inp.T)} :
            /\ out = Raised("NonElementaryIntegral")
                  <=> ~PIsZero(PRem(en, NormalDenomC(dn,
                                      NormalDenomH(en, PGcd(dn, en)))))
            /\ out = NoOut <=> pc = "special_denom"

\* C18: normal_denom fails with NonElementaryIntegral exactly when the
\* normal part en of gd does not exactly divide c = dn*h^2, and returns a
\* quadruple in every other case.
C18_FailsIffEnDoesNotDivideC ==
    pc # "normal_denom" =>
        \E dn \in {SplitNormal(inp.fd, inp.D, inp.T)},
           en \in {SplitNormal(inp.gd, inp.D, inp.T)} :
            /\ out = Raised("NonElementaryIntegral")
                  <=> ~PIsZero(PRem(NormalDenomC(dn,
                                      NormalDenomH(en, PGcd(dn, en))), en))
            /\ out = NoOut <=> pc = "special_denom"
            /\ out \in {NoOut, Raised("NonElementaryIntegral")}

C18_Witness ==
    /\ pc = "done"
    /\ out = Raised("NonElementaryIntegral")
    /\ \E dn \in {SplitNormal(inp.fd, inp.D, inp.T)},
          en \in {SplitNormal(inp.gd, inp.D, inp.T)} :
       \E c \in {NormalDenomC(dn, NormalDenomH(en, PGcd(dn, en)))} :
           /\ PDegree(c) >= 1
           /\ PIsZero(PRem(en, c))

(***************************************************************************)
(* special_denom(a, ba, bd, ca, cd, D, T) on b = ba/bd and c = ca/cd of    *)
(* k<t>: the denominators are powers of the special prime p in the exp and *)
(* tan cases and constants in the primitive and base cases.                *)
(***************************************************************************)
InitSpecialDenom ==
    /\ pc = "special_denom"
    /\ \E a \in Polys \ {PZero}, ba \in Polys, ca \in Polys, tw \in Towers :
       \E bd \in IF get_case(Last(tw.D), Last(tw.T)) \in {"exp", "tan"}
                 THEN {PPow(SpecialPrime(tw.D, tw.T), k) : k \in 0..(MaxDeg + 1)}
                 ELSE {PInt(k) : k \in 1..(MaxDeg + 1)},
          cd \in IF get_case(Last(tw.D), Last(tw.T)) \in {"exp", "tan"}
                 THEN {PPow(SpecialPrime(tw.D, tw.T), k) : k \in 0..(MaxDeg + 1)}
                 ELSE {PInt(k) : k \in 1..(MaxDeg + 1)} :
           inp = [a |-> a, ba |-> ba, bd |-> bd, ca |-> ca, cd |-> cd,
                  D |-> tw.D, T |-> tw.T]
    /\ loc = [a |-> inp.a, ba |-> inp.ba, bd |-> inp.bd, ca |-> inp.ca,
              cd |-> inp.cd, hn |-> POne, n |-> NInt(0)]
    /\ out = NoOut
    /\ warnings = 0

SpecSpecialDenom == InitSpecialDenom /\ [][CallSpecialDenom]_vars

\* the precondition of C19: exp or tan case, b and c nonzero and in lowest
\* terms
LowestTermsAtSpecialPrime ==
    /\ get_case(Last(inp.D), Last(inp.T)) \in {"exp", "tan"}
    /\ ~PIsZero(inp.ba) /\ ~PIsZero(inp.ca)
    /\ PIsOne(PGcd(inp.ba, inp.bd))
    /\ PIsOne(PGcd(inp.ca, inp.cd))

\* the tuple special_denom is said to return for the orders nb, nc and the
\* exponents n, N
SpecialDenomAsStated(p, nb, nc, n, N) ==
    /\ n = Min2(0, nc - Min2(0, nb))
    /\ N = Max3(0, -nb, n - nc)
    /\ n <= 0 /\ 0 <= N
    /\ pc = "bound_degree"
    /\ loc.A = PMul(inp.a, PPow(p, N))
    /\ PIsZero(PRem(derivation(p, inp.D, inp.T), p))
    /\ PMul(loc.B, inp.bd)
       = PAdd(PMul(inp.ba, PPow(p, N)),
              PMul(PMul(PMul(PMul(PInt(n), inp.a),
                             PQuo(derivation(p, inp.D, inp.T), p)),
                        PPow(p, N)),
                   inp.bd))
    /\ PMul(loc.C, inp.cd) = PMul(inp.ca, PPow(p, N - n))
    /\ loc.hs = PPow(p, -n)

\* C19: in the exp and tan cases with nb != 0 and b, c in lowest terms,
\* special_denom computes n = min(0, nc - min(0, nb)) and
\* N = max(0, -nb, n - nc), so n <= 0 <= N, and returns A = a*p^N,
\* B = (ba/bd + n*a*D(p)/p)*p^N, C = (ca/cd)*p^(N - n), h = p^(-n), every
\* division being exact.
C19_SpecialDenomScaling ==
    (pc # "special_denom" /\ LowestTermsAtSpecialPrime) =>
        \E p \in {SpecialPrime(inp.D, inp.T)} :
        \E nb \in {OrderOf(inp.ba, p) - OrderOf(inp.bd, p)},
           nc \in {OrderOf(inp.ca, p) - OrderOf(inp.cd, p)} :
            nb # 0 =>
                SpecialDenomAsStated(p, nb, nc, Min2(0, nc - Min2(0, nb)),
                    Max3(0, -nb, Min2(0, nc - Min2(0, nb)) - nc))

C19_Witness ==
    /\ pc = "bound_degree"
    /\ LowestTermsAtSpecialPrime
    /\ get_case(Last(inp.D), Last(inp.T)) = "tan"
    /\ PDegree(loc.hs) >= 2
    /\ PDegree(inp.bd) >= 2
    /\ PDegree(loc.A) > PDegree(inp.a)

\* C20: in the primitive and base cases special_denom returns
\* (a, ba/bd, ca/cd, 1): a unchanged, the quotient of ca by cd as third
\* component, the constant 1 as fourth, and order_at is not evaluated (a
\* zero ba or ca raises no ValueError).
C20_PrimitiveBasePassThrough ==
    (pc # "special_denom"
     /\ get_case(Last(inp.D), Last(inp.T)) \in {"primitive", "base"}) =>
        /\ pc = "bound_degree"
        /\ out = NoOut
        /\ loc.A = inp.a
        /\ loc.B = PQuo(inp.ba, inp.bd)
        /\ loc.C = PQuo(inp.ca, inp.cd)
        /\ loc.hs = POne

C20_Witness ==
    /\ pc = "bound_degree"
    /\ get_case(Last(inp.D), Last(inp.T)) = "primitive"
    /\ PIsZero(inp.ba)
    /\ PDegree(inp.ca) >= 1
    /\ inp.cd = PInt(2)
    /\ loc.C # inp.ca

\* C21 as stated: in the primitive, exp and tan cases bound_degree raises
\* NotImplementedError (no bound; rischDE warns and takes n = oo) whenever
\* deg(a) - 1 == deg(b).
C21_Original ==
    (/\ pc # "bound_degree"
     /\ get_case(Last(inp.D), Last(inp.T)) \in {"primitive", "exp", "tan"}
     /\ PDegree(inp.a) - 1 = PDegree(inp.b))
        => (warnings = 1 /\ pc = "spde" /\ loc.n = oo)

\* C21: in the primitive case bound_degree raises NotImplementedError (no
\* bound; rischDE warns and takes n = oo) whenever deg(a) - 1 == deg(b).
C21_PrimitiveCancellationIsIncomplete ==
    (/\ pc # "bound_degree"
     /\ get_case(Last(inp.D), Last(inp.T)) = "primitive"
     /\ PDegree(inp.a) - 1 = PDegree(inp.b))
        => (warnings = 1 /\ pc = "spde" /\ loc.n = oo)

C21_Witness ==
    /\ pc = "spde"
    /\ get_case(Last(inp.D), Last(inp.T)) = "primitive"
    /\ PDegree(inp.a) = 1
    /\ PDegree(inp.b) = 0
    /\ ~PIsZero(inp.c)
    /\ warnings = 1

(***************************************************************************)
(* solve_poly_rde(b, c, D, n, T): the choice of the branch, the loop of    *)
(* the chosen function (the actions of the three loops above) and the      *)
(* steps after its return.  inp holds the arguments of the invocation      *)
(* under execution, inp.h the sum of the h of the suspended invocations    *)
(* and inp.depth their number.                                             *)
(***************************************************************************)
InitSolvePolyRde ==
    /\ pc = "solve_poly_rde"
    /\ \E b \in Polys, tw \in Towers :
       \E c \in Polys \cup {PAdd(derivation(q, tw.D, tw.T), PMul(b, q)) :
                               q \in Polys} :
       \E n \in {NInt(k) : k \in 0..(MaxDeg + 1)} \cup {oo} :
           inp = [b |-> b, c |-> c, n |-> n, D |-> tw.D, T |-> tw.T,
                  h |-> PZero, depth |-> 0]
    /\ loc = [q |-> PZero, c |-> inp.c, n |-> inp.n]
    /\ out = NoOut
    /\ warnings = 0

\* the second test without (d.is_one or d.degree(t) >= 2)
SolvePolyRdeDispatchLooseSmall ==
    /\ pc = "solve_poly_rde"
    /\ \E d \in {Last(inp.D)} :
       IF ~PIsZero(inp.b)
          /\ (PIsOne(d) \/ PDegree(inp.b) > Max2(0, PDegree(d) - 1))
       THEN /\ pc' = "no_cancel_b_large"
            /\ loc' = [q |-> PZero, c |-> inp.c, n |-> inp.n]
            /\ UNCHANGED <<inp, out, warnings>>
       ELSE IF PIsZero(inp.b) \/ PDegree(inp.b) < PDegree(d) - 1
       THEN /\ pc' = "no_cancel_b_small"
            /\ loc' = [q |-> PZero, c |-> inp.c, n |-> inp.n]
            /\ UNCHANGED <<inp, out, warnings>>
       ELSE IF PDegree(d) >= 2 /\ PDegree(inp.b) = PDegree(d) - 1
               /\ ExceedsRatio(inp.n, inp.b, d)
       THEN /\ pc' = "no_cancel_equal"
            /\ loc' = [q |-> PZero, c |-> inp.c, n |-> inp.n]
            /\ UNCHANGED <<inp, out, warnings>>
       ELSE Fail("NotImplementedError")

\* lines 442-479: the tests of the if statement, and the entry of the
\* chosen function (q = 0)
SolvePolyRdeDispatch ==
    /\ pc = "solve_poly_rde"
    /\ \E d \in {Last(inp.D)} :
       IF ~PIsZero(inp.b)
          /\ (PIsOne(d) \/ PDegree(inp.b) > Max2(0, PDegree(d) - 1))
       THEN /\ pc' = "no_cancel_b_large"
            /\ loc' = [q |-> PZero, c |-> inp.c, n |-> inp.n]
            /\ UNCHANGED <<inp, out, warnings>>
       ELSE IF (PIsZero(inp.b) \/ PDegree(inp.b) < PDegree(d) - 1)
               /\ (PIsOne(d) \/ PDegree(d) >= 2)
       THEN /\ pc' = "no_cancel_b_small"
            /\ loc' = [q |-> PZero, c |-> inp.c, n |-> inp.n]
            /\ UNCHANGED <<inp, out, warnings>>
       ELSE IF PDegree(d) >= 2 /\ PDegree(inp.b) = PDegree(d) - 1
               /\ ExceedsRatio(inp.n, inp.b, d)
       THEN /\ pc' = "no_cancel_equal"
            /\ loc' = [q |-> PZero, c |-> inp.c, n |-> inp.n]
            /\ UNCHANGED <<inp, out, warnings>>
       ELSE Fail("NotImplementedError")

\* the call after a tuple of no_cancel_b_small made on the same T, D
SolvePolyRdeResumeSameTower ==
    /\ pc = "done"
    /\ out.kind = "return"
    /\ IF out.val.kind = "tuple" /\ "b0" \in DOMAIN out.val
       THEN IF PIsZero(out.val.b0) \/ PIsZero(out.val.c0)
            THEN /\ out' = Raised("AssertionError")
                 /\ UNCHANGED <<pc, inp, loc, warnings>>
            ELSE /\ inp' = [b |-> out.val.b0, c |-> out.val.c0, n |-> inp.n,
                            D |-> inp.D, T |-> inp.T,
                            h |-> PAdd(inp.h, out.val.q),
                            depth |-> inp.depth + 1]
                 /\ pc' = "solve_poly_rde"
                 /\ out' = NoOut
                 /\ UNCHANGED <<loc, warnings>>
       ELSE IF out.val.kind = "tuple"
       THEN /\ inp' = [b |-> inp.b, c |-> out.val.C, n |-> NInt(out.val.m),
                       D |-> inp.D, T |-> inp.T,
                       h |-> PAdd(inp.h, out.val.q),
                       depth |-> inp.depth + 1]
            /\ pc' = "solve_poly_rde"
            /\ out' = NoOut
            /\ UNCHANGED <<loc, warnings>>
       ELSE /\ inp.depth > 0
            /\ out' = Returned([kind |-> "poly", q |-> PAdd(inp.h, out.val.q)])
            /\ inp' = [inp EXCEPT !.h = PZero, !.depth = 0]
            /\ UNCHANGED <<pc, loc, warnings>>

\* lines 449-462 and 468-476: after the return R of the chosen function.
\* A tuple of no_cancel_b_small leads to the call on T[:-1], D[:-1] with
\* the same n, a tuple of no_cancel_equal to the call on the same T, D
\* with n = m; a polynomial y returned to a suspended invocation is
\* returned as h + y.
SolvePolyRdeResume ==
    /\ pc = "done"
    /\ out.kind = "return"
    /\ IF out.val.kind = "tuple" /\ "b0" \in DOMAIN out.val
       THEN IF PIsZero(out.val.b0) \/ PIsZero(out.val.c0)
            THEN /\ out' = Raised("AssertionError")
                 /\ UNCHANGED <<pc, inp, loc, warnings>>
            ELSE /\ inp' = [b |-> out.val.b0, c |-> out.val.c0, n |-> inp.n,
                            D |-> Front(inp.D), T |-> Front(inp.T),
                            h |-> PAdd(inp.h, out.val.q),
                            depth |-> inp.depth + 1]
                 /\ pc' = "solve_poly_rde"
                 /\ out' = NoOut
                 /\ UNCHANGED <<loc, warnings>>
       ELSE IF out.val.kind = "tuple"
       THEN /\ inp' = [b |-> inp.b, c |-> out.val.C, n |-> NInt(out.val.m),
                       D |-> inp.D, T |-> inp.T,
                       h |-> PAdd(inp.h, out.val.q),
                       depth |-> inp.depth + 1]
            /\ pc' = "solve_poly_rde"
            /\ out' = NoOut
            /\ UNCHANGED <<loc, warnings>>
       ELSE /\ inp.depth > 0
            /\ out' = Returned([kind |-> "poly", q |-> PAdd(inp.h, out.val.q)])
            /\ inp' = [inp EXCEPT !.h = PZero, !.depth = 0]
            /\ UNCHANGED <<pc, loc, warnings>>

NextSolvePolyRde ==
    \/ SolvePolyRdeDispatch
    \/ NoCancelBLargeIterate
    \/ NoCancelBSmallIterate
    \/ NoCancelEqualIterate
    \/ SolvePolyRdeResume

SpecSolvePolyRde == InitSolvePolyRde /\ [][NextSolvePolyRde]_vars

\* the three tests of C22, in the order of the first match
DegBLarge ==
    /\ ~PIsZero(inp.b)
    /\ \/ Last(inp.D) = POne
       \/ PDegree(inp.b) > Max2(0, PDegree(Last(inp.D)) - 1)

DegBSmall ==
    /\ PIsZero(inp.b) \/ PDegree(inp.b) < PDegree(Last(inp.D)) - 1
    /\ Last(inp.D) = POne \/ PDegree(Last(inp.D)) >= 2

DegBEqual ==
    /\ PDegree(Last(inp.D)) >= 2
    /\ PDegree(inp.b) = PDegree(Last(inp.D)) - 1
    /\ \/ inp.n.inf
       \/ QLess(QDiv(QNeg(PLC(inp.b)), PLC(Last(inp.D))), QInt(inp.n.v))

BranchStep ==
    pc = "solve_poly_rde" =>
        /\ pc' = "no_cancel_b_large" <=> DegBLarge
        /\ pc' = "no_cancel_b_small" <=> (~DegBLarge /\ DegBSmall)
        /\ pc' = "no_cancel_equal"
              <=> (~DegBLarge /\ ~DegBSmall /\ DegBEqual)
        /\ (pc' = "done" /\ out' = Raised("NotImplementedError"))
              <=> (~DegBLarge /\ ~DegBSmall /\ ~DegBEqual)
        /\ out' # Raised("NonElementaryIntegral")

\* C22: solve_poly_rde chooses by first match the deg(b)-large, the
\* deg(b)-small or the equal branch under the stated tests, and every other
\* combination ends in NotImplementedError, never in
\* NonElementaryIntegral.
C22_BranchByFirstMatch == [][BranchStep]_vars

C22_Witness ==
    /\ pc = "done"
    /\ out = Raised("NotImplementedError")
    /\ inp.depth = 0
    /\ PIsZero(inp.b)
    /\ PDegree(Last(inp.D)) = 1
    /\ loc.q = PZero /\ loc.c = inp.c /\ loc.n = inp.n

\* the bound of the invocation under execution is a negative integer
SpdeBoundNegative == ~loc.n.inf /\ loc.n.v < 0

\* one invocation of spde ends as C23 states; g is gcd(a, b)
SpdeOutcomeAsStated(g) ==
    /\ out' = Raised("NonElementaryIntegral")
          <=> \/ SpdeBoundNegative /\ ~PIsZero(loc.c)
              \/ ~SpdeBoundNegative /\ ~PIsZero(PRem(loc.c, g))
    /\ out' \in {NoOut, Raised("NonElementaryIntegral")}
    /\ (SpdeBoundNegative /\ PIsZero(loc.c)) =>
          /\ pc' = "spde_return"
          /\ loc'.res = [tag |-> "ok", B |-> PZero, C |-> PZero,
                         m |-> NInt(0), alpha |-> PZero, beta |-> PZero]
    /\ (/\ ~SpdeBoundNegative
        /\ PIsZero(PRem(loc.c, g))
        /\ PDegree(PQuo(loc.a, g)) = 0) =>
          /\ pc' = "spde_return"
          /\ PMul(loc'.res.B, PQuo(loc.a, g)) = PQuo(loc.b, g)
          /\ PMul(loc'.res.C, PQuo(loc.a, g)) = PQuo(loc.c, g)
          /\ loc'.res.m = loc.n
          /\ loc'.res.alpha = POne
          /\ loc'.res.beta = PZero

\* C23: at every recursion level spde raises NonElementaryIntegral exactly
\* when n < 0 with c != 0 or when gcd(a, b) does not divide c; for n < 0
\* with c == 0 it returns (0, 0, 0, 0, 0); when deg(a) == 0 after the
\* division by gcd(a, b) it returns (b/a, c/a, n, 1, 0) with n unchanged.
C23_SpdeFailsInTwoSituations ==
    [][(pc = "spde" /\ Len(loc.stack) <= MaxRecursion)
          => SpdeOutcomeAsStated(PGcd(loc.a, loc.b))]_vars

C23_Witness ==
    /\ pc = "done"
    /\ out = Raised("NonElementaryIntegral")
    /\ Len(loc.stack) >= 1
    /\ ~SpdeBoundNegative
    /\ ~PIsZero(PRem(loc.c, PGcd(loc.a, loc.b)))

\* a pass that leaves the loop running took an m with 0 <= m <= n and left
\* the working bound at m - 1, finite and below n
PassLowersBound ==
    (pc # "done" /\ pc' = pc) =>
        /\ ~loc'.n.inf
        /\ InRange(loc'.n.v + 1, loc.n)
        /\ loc.n.inf \/ loc'.n.v < loc.n.v

\* the loop ended by c == 0, by a reduction tuple or by Unsolvable
LoopEndAsStated ==
    \/ /\ out.kind = "return"
       /\ out.val.kind = "poly"
       /\ PIsZero(loc.c)
    \/ /\ out.kind = "return"
       /\ out.val.kind = "tuple"
    \/ out = Raised("NonElementaryIntegral")

RecursiveCall == pc = "done" /\ pc' = "solve_poly_rde"

\* the call is made on T[:-1], D[:-1]
OnShorterTower ==
    /\ Len(inp.T) >= 2
    /\ inp'.T = Front(inp.T)
    /\ inp'.D = Front(inp.D)

\* the depth of the recursion stays within the height of the tower (2 for
\* the towers with t, 1 for the base field, where no call is made) and no
\* descent is attempted from a tower of height 1
DepthWithinHeight ==
    /\ inp.depth <= 1
    /\ out # Raised("IndexError")

\* C25 as stated: every recursive call of solve_poly_rde, from the
\* deg(b)-small branch and from the deg(b) == deg(D) - 1 branch, is made on
\* the tower without its last element
C25_Original ==
    /\ [][RecursiveCall => OnShorterTower]_vars
    /\ []DepthWithinHeight

\* C25: the recursive call from the deg(b)-small branch is made on T[:-1],
\* D[:-1] with the same n, the call from the deg(b) == deg(D) - 1 branch on
\* the same T and D with the bound m; the depth of the recursion is at most
\* the height of the tower and no descent is attempted from height 1
C25_RecursiveCalls ==
    /\ [][RecursiveCall =>
            /\ Len(inp.T) >= 2
            /\ inp'.depth = inp.depth + 1
            /\ IF "b0" \in DOMAIN out.val
               THEN OnShorterTower /\ inp'.n = inp.n
               ELSE /\ inp'.T = inp.T
                    /\ inp'.D = inp.D
                    /\ inp'.b = inp.b
                    /\ inp'.n = NInt(out.val.m)]_vars
    /\ []DepthWithinHeight

\* each kind of recursive call has been made: this is the invocation
\* entered from the deg(b) == deg(D) - 1 branch, on the caller's tower
C25_Witness ==
    /\ pc = "solve_poly_rde"
    /\ inp.depth = 1
    /\ Len(inp.T) = 2
    /\ get_case(Last(inp.D), Last(inp.T)) = "tan"

\* the invocation entered from the deg(b)-small branch, one level down
C25_DescentReached ==
    /\ pc = "solve_poly_rde"
    /\ inp.depth = 1
    /\ Len(inp.T) = 1


\* C26: when the resultant of weak_normalizer does not involve z the result
\* is q = 1 with the pair (a, d) exactly as passed in, and when it involves z
\* but has no positive integer root q is 1 as well
C26_DegenerateResultant ==
    (pc = "done" /\ out.kind = "return") =>
        /\ PDegree(loc.r) < 1 =>
               out.val = [q |-> POne, a |-> inp.a, d |-> inp.d]
        /\ positive_integer_roots(loc.r) = << >> => out.val.q = POne

\* a call returned on the degenerate path with a pair that a cancellation
\* would have changed
C26_Witness ==
    /\ pc = "done"
    /\ out.kind = "return"
    /\ PDegree(loc.r) < 1
    /\ PDegree(inp.d) >= 1
    /\ cancel(inp.a, inp.d) # <<inp.a, inp.d>>

\* a call returned with a resultant that involves z and has no positive
\* integer root
C26_NoRootReached ==
    /\ pc = "done"
    /\ out.kind = "return"
    /\ PDegree(loc.r) >= 1
    /\ positive_integer_roots(loc.r) = << >>


\* C27: a call of bound_degree that does not raise returns an integer n >= 0,
\* every path to the return having assigned n: in the primitive case with
\* deg(b) < deg(a) - 1 the call returns n = max(0, deg(c) - deg(a) + 1)
C27_ReturnsAssignedBound ==
    pc # "bound_degree" =>
        /\ (pc = "spde" /\ ~loc.n.inf) => loc.n.v >= 0
        /\ (/\ get_case(Last(inp.D), Last(inp.T)) = "primitive"
            /\ PDegree(inp.b) < PDegree(inp.a) - 1)
               => /\ pc = "spde"
                  /\ loc.n = NInt(Max2(0, PDegree(inp.c) - PDegree(inp.a) + 1))


\* C28: the bound with which rischDE calls solve_poly_rde is the m that
\* spde returned
C28_ReducedBoundHandedOn ==
    pc = "solve_poly_rde" => loc.n = loc.m


\* C29: special_denom never evaluates order_at on the zero polynomial: in
\* the exp and tan cases a call with ba or ca zero and bd, cd nonzero
\* returns its quadruple or raises NotImplementedError, it does not end in
\* the ValueError of order_at
C29_NoOrderAtZero ==
    (/\ pc # "special_denom"
     /\ get_case(Last(inp.D), Last(inp.T)) \in {"exp", "tan"}
     /\ PIsZero(inp.ba) \/ PIsZero(inp.ca)
     /\ ~PIsZero(inp.bd)
     /\ ~PIsZero(inp.cd)) =>
        /\ out # Raised("ValueError")
        /\ pc = "bound_degree" \/ out = Raised("NotImplementedError")


\* the invocation solve_poly_rde(b, C, D, m, T) entered after a tuple of
\* no_cancel_equal: one level down, on the caller's tower
EqualFollowUp ==
    /\ pc = "solve_poly_rde"
    /\ inp.depth = 1
    /\ Len(inp.T) = 2

\* C30: after no_cancel_equal returned the tuple (h, m, C) the follow-up
\* call solve_poly_rde(b, C, D, m, T) enters one of the three solving
\* branches, it does not end in the final NotImplementedError
C30_FollowUpMakesProgress ==
    [][EqualFollowUp =>
          pc' \in {"no_cancel_b_large", "no_cancel_b_small",
                   "no_cancel_equal"}]_vars
====
